---- MODULE Spec2Model ----
(***************************************************************************)
(* A model of the lshw capture pipeline of dci-analytics:                  *)
(*   - the Type Normalizer  (synchronizers/normalization_jobs_extra.py)    *)
(*   - the Hardware Extractor                                              *)
(*                 (synchronizers/normalization_jobs_extra_hardware.py)    *)
(* Captures are JSON documents.  A JSON/Python value is a record tagged by *)
(* its Python type in field t; a dict keeps its insertion order as a       *)
(* sequence of <<key, value>> pairs.  An exception raised by the code is   *)
(* the value Raise(<exception class>), propagated by hand.                 *)
(***************************************************************************)
EXTENDS Integers, Sequences, FiniteSets, TLC

VARIABLES doc, src, pc, norm, inst, profile, call, outcome,
          task, window, sync, handed, lock

vars == <<doc, src, pc, norm, inst, profile, call, outcome, task, window, sync, handed, lock>>

\* The state of the synchronization tasks of the workers.
tasks == <<task, window, sync, handed, lock>>

\* No synchronization task is running: documents are processed on their own.
NoTask ==
  /\ task = [worker |-> "none"]
  /\ window = <<>>
  /\ sync = [pc |-> "none"]
  /\ handed = <<>>
  /\ lock = [releases |-> 0]

(***************************************************************************)
(* Python values                                                           *)
(***************************************************************************)
PyNone == [t |-> "none"]
PyBool(b) == [t |-> "bool", b |-> b]
PyInt(n) == [t |-> "int", n |-> n]
\* A finite float, counted in thousandths.
PyFloat(m) == [t |-> "float", milli |-> m]
\* inf, -inf and nan.
PyFloatSpecial(s) == [t |-> "fspecial", s |-> s]
PyStr(s) == [t |-> "str", s |-> s]
PyList(l) == [t |-> "list", l |-> l]
PyDict(d) == [t |-> "dict", d |-> d]
Raise(e) == [t |-> "raise", e |-> e]
\* A key that a generated mapping leaves out.
Absent == [t |-> "absent"]

IsRaise(v) == v.t = "raise"
IsDict(v) == v.t = "dict"
IsList(v) == v.t = "list"
IsStr(v) == v.t = "str"
\* isinstance(v, bool)
IsBool(v) == v.t = "bool"
\* isinstance(v, (int, float)): bool is a subclass of int.
IsNumber(v) == v.t \in {"int", "float", "fspecial", "bool"}

EmptyDict == PyDict(<<>>)

\* A mapping literal: the entries in order, those with value Absent left out.
Obj(entries) == PyDict(SelectSeq(entries, LAMBDA e : e[2] # Absent))

\* key in d
HasKey(d, k) == \E i \in 1..Len(d.d) : d.d[i][1] = k

\* d[key] of a dict that has the key
Item(d, k) == d.d[CHOOSE i \in 1..Len(d.d) : d.d[i][1] = k][2]

\* d.get(key, default)
DictGet(d, k, default) == IF HasKey(d, k) THEN Item(d, k) ELSE default

\* The keys of a mapping, as a set.
Keys(d) == {d.d[i][1] : i \in 1..Len(d.d)}

\* bool(v)
Truthy(v) ==
  CASE v.t = "none" -> FALSE
    [] v.t = "bool" -> v.b
    [] v.t = "int" -> v.n # 0
    [] v.t = "float" -> v.milli # 0
    [] v.t = "fspecial" -> TRUE
    [] v.t = "str" -> v.s # ""
    [] v.t = "list" -> v.l # <<>>
    [] v.t = "dict" -> v.d # <<>>

(***************************************************************************)
(* Python strings                                                          *)
(***************************************************************************)
UpperAlphabet == "ABCDEFGHIJKLMNOPQRSTUVWXYZ"
LowerAlphabet == "abcdefghijklmnopqrstuvwxyz"
DecimalDigits == "0123456789"

CharAt(s, i) == SubSeq(s, i, i)
Rest(s) == SubSeq(s, 2, Len(s))

IsIn(c, alphabet) == \E i \in 1..Len(alphabet) : CharAt(alphabet, i) = c
PosIn(c, alphabet) == CHOOSE i \in 1..Len(alphabet) : CharAt(alphabet, i) = c

IsDigit(c) == IsIn(c, DecimalDigits)
DigitVal(c) == PosIn(c, DecimalDigits) - 1
IsSpace(c) == c \in {" ", "\t", "\n", "\r"}

LowerChar(c) == IF IsIn(c, UpperAlphabet) THEN CharAt(LowerAlphabet, PosIn(c, UpperAlphabet)) ELSE c
UpperChar(c) == IF IsIn(c, LowerAlphabet) THEN CharAt(UpperAlphabet, PosIn(c, LowerAlphabet)) ELSE c

RECURSIVE Lower(_)
\* str.lower()
Lower(s) == IF s = "" THEN "" ELSE LowerChar(CharAt(s, 1)) \o Lower(Rest(s))

RECURSIVE Upper(_)
\* str.upper()
Upper(s) == IF s = "" THEN "" ELSE UpperChar(CharAt(s, 1)) \o Upper(Rest(s))

RECURSIVE LStrip(_)
LStrip(s) == IF s # "" /\ IsSpace(CharAt(s, 1)) THEN LStrip(Rest(s)) ELSE s

RECURSIVE RStrip(_)
RStrip(s) ==
  IF s # "" /\ IsSpace(CharAt(s, Len(s))) THEN RStrip(SubSeq(s, 1, Len(s) - 1)) ELSE s

\* str.strip()
Strip(s) == RStrip(LStrip(s))

\* str.startswith(p)
StartsWith(s, p) == Len(s) >= Len(p) /\ SubSeq(s, 1, Len(p)) = p

\* p in s, for strings
Contains(s, p) == \E i \in 1..(Len(s) - Len(p) + 1) : SubSeq(s, i, i + Len(p) - 1) = p

\* The characters of s that are not underscores.
RECURSIVE DropUnderscores(_)
DropUnderscores(s) ==
  IF s = "" THEN ""
  ELSE (IF CharAt(s, 1) = "_" THEN "" ELSE CharAt(s, 1)) \o DropUnderscores(Rest(s))

\* Digits, with single underscores allowed between them (Python's numeric literals).
IsDigitRun(s) ==
  /\ s # ""
  /\ IsDigit(CharAt(s, 1))
  /\ IsDigit(CharAt(s, Len(s)))
  /\ \A i \in 1..Len(s) : IsDigit(CharAt(s, i)) \/ CharAt(s, i) = "_"
  /\ \A i \in 1..(Len(s) - 1) : ~(CharAt(s, i) = "_" /\ CharAt(s, i + 1) = "_")

RECURSIVE DigitsValue(_, _)
\* The number a string of digits denotes, acc being the value of those already read.
DigitsValue(s, acc) ==
  IF s = "" THEN acc ELSE DigitsValue(Rest(s), 10 * acc + DigitVal(CharAt(s, 1)))

HasSign(s) == s # "" /\ CharAt(s, 1) \in {"+", "-"}
Unsigned(s) == IF HasSign(s) THEN Rest(s) ELSE s
SignOf(s) == IF s # "" /\ CharAt(s, 1) = "-" THEN -1 ELSE 1

\* Whether int(s) succeeds: optional whitespace, optional sign, digits.
IntParses(s) == IsDigitRun(Unsigned(Strip(s)))

\* int(s), when it succeeds
IntValue(s) == SignOf(Strip(s)) * DigitsValue(DropUnderscores(Unsigned(Strip(s))), 0)

RECURSIVE IntToStr(_)
\* str(n) of an int
IntToStr(n) ==
  IF n < 0 THEN "-" \o IntToStr(-n)
  ELSE IF n < 10 THEN CharAt(DecimalDigits, n + 1)
  ELSE IntToStr(n \div 10) \o CharAt(DecimalDigits, (n % 10) + 1)

\* The first position of a set of positions, or 0 for the empty set.
First(positions) == IF positions = {} THEN 0 ELSE CHOOSE i \in positions : \A j \in positions : i <= j

\* The position of the first character of s that is in the set cs, or 0.
FirstOf(s, cs) ==
  IF \E i \in 1..Len(s) : CharAt(s, i) \in cs
  THEN CHOOSE i \in 1..Len(s) : CharAt(s, i) \in cs /\ \A j \in 1..(i - 1) : CharAt(s, j) \notin cs
  ELSE 0

\* The mantissa and the exponent part of an unsigned decimal literal.
MantissaOf(u) == IF FirstOf(u, {"e", "E"}) = 0 THEN u ELSE SubSeq(u, 1, FirstOf(u, {"e", "E"}) - 1)
ExponentOf(u) == IF FirstOf(u, {"e", "E"}) = 0 THEN "" ELSE SubSeq(u, FirstOf(u, {"e", "E"}) + 1, Len(u))
HasExponent(u) == FirstOf(u, {"e", "E"}) # 0

\* The digits before and after the point of a mantissa.
WholeOf(m) == IF FirstOf(m, {"."}) = 0 THEN m ELSE SubSeq(m, 1, FirstOf(m, {"."}) - 1)
FractionOf(m) == IF FirstOf(m, {"."}) = 0 THEN "" ELSE SubSeq(m, FirstOf(m, {"."}) + 1, Len(m))

MantissaParses(m) ==
  /\ WholeOf(m) # "" \/ FractionOf(m) # ""
  /\ WholeOf(m) = "" \/ IsDigitRun(WholeOf(m))
  /\ FractionOf(m) = "" \/ IsDigitRun(FractionOf(m))

\* Whether s, stripped, lowercased and unsigned, names inf or nan.
IsSpecialFloat(s) == Lower(Unsigned(Strip(s))) \in {"inf", "infinity", "nan"}

\* Whether float(s) succeeds with a finite decimal literal.
DecimalParses(s) ==
  LET u == Unsigned(Strip(s)) IN
  /\ MantissaParses(MantissaOf(u))
  /\ HasExponent(u) => IsDigitRun(Unsigned(ExponentOf(u)))

\* Whether float(s) succeeds.
FloatParses(s) == IsSpecialFloat(s) \/ DecimalParses(s)

RECURSIVE Pow10(_)
Pow10(n) == IF n = 0 THEN 1 ELSE 10 * Pow10(n - 1)

\* The first three digits after the point, as thousandths.
Thousandths(f) ==
  LET d == DropUnderscores(f)
      p == SubSeq(d \o "000", 1, 3)
  IN DigitsValue(p, 0)

\* float(s) of a finite decimal literal, in thousandths (later digits are cut).
DecimalValue(s) ==
  LET u == Unsigned(Strip(s))
      m == MantissaOf(u)
      base == 1000 * DigitsValue(DropUnderscores(WholeOf(m)), 0) + Thousandths(FractionOf(m))
      e == IF HasExponent(u)
           THEN SignOf(ExponentOf(u)) * DigitsValue(DropUnderscores(Unsigned(ExponentOf(u))), 0)
           ELSE 0
      scaled == IF e >= 0 THEN base * Pow10(e) ELSE base \div Pow10(-e)
  IN SignOf(Strip(s)) * scaled

\* float(s), when it succeeds
FloatValue(s) ==
  IF IsSpecialFloat(s)
  THEN LET w == Lower(Unsigned(Strip(s))) IN
       IF w = "nan" THEN PyFloatSpecial("nan")
       ELSE IF SignOf(Strip(s)) = -1 THEN PyFloatSpecial("-inf") ELSE PyFloatSpecial("inf")
  ELSE PyFloat(DecimalValue(s))

RECURSIVE DropTrailingZeros(_)
DropTrailingZeros(s) ==
  IF Len(s) > 1 /\ CharAt(s, Len(s)) = "0" THEN DropTrailingZeros(SubSeq(s, 1, Len(s) - 1)) ELSE s

\* repr(x) of a finite float given in thousandths
FloatToStr(m) ==
  LET a == IF m < 0 THEN -m ELSE m
      f == IntToStr(1000 + (a % 1000))
  IN (IF m < 0 THEN "-" ELSE "") \o IntToStr(a \div 1000) \o "." \o DropTrailingZeros(SubSeq(f, 2, 4))

RECURSIVE JoinReprs(_)
JoinReprs(parts) ==
  IF parts = <<>> THEN ""
  ELSE IF Len(parts) = 1 THEN parts[1]
  ELSE parts[1] \o ", " \o JoinReprs(Tail(parts))

RECURSIVE Repr(_)
\* repr(v); str(v) differs from it for a string only
Repr(v) ==
  CASE v.t = "none" -> "None"
    [] v.t = "bool" -> IF v.b THEN "True" ELSE "False"
    [] v.t = "int" -> IntToStr(v.n)
    [] v.t = "float" -> FloatToStr(v.milli)
    [] v.t = "fspecial" -> v.s
    [] v.t = "str" -> "'" \o v.s \o "'"
    [] v.t = "list" -> "[" \o JoinReprs([i \in 1..Len(v.l) |-> Repr(v.l[i])]) \o "]"
    [] v.t = "dict" ->
         "{" \o JoinReprs([i \in 1..Len(v.d) |-> "'" \o v.d[i][1] \o "': " \o Repr(v.d[i][2])]) \o "}"

\* str(v)
StrOf(v) == IF v.t = "str" THEN v.s ELSE Repr(v)

\* v[key]: KeyError for a mapping without the key, TypeError for a value that is
\* no mapping.
GetItem(v, k) ==
  IF IsRaise(v) THEN v
  ELSE IF IsDict(v) THEN (IF HasKey(v, k) THEN Item(v, k) ELSE Raise("KeyError"))
  ELSE Raise("TypeError")

\* v.get(key, default): AttributeError for a value that is no mapping.
MethodGet(v, k, default) ==
  IF IsRaise(v) THEN v
  ELSE IF IsDict(v) THEN DictGet(v, k, default)
  ELSE Raise("AttributeError")

\* An exception r raised by a statement leaves the function; any other value r
\* goes on to the statements F that follow.
Try(r, F(_)) == IF IsRaise(r) THEN r ELSE F(r)

\* The statements F that follow an assignment of v.
Let(v, F(_)) == F(v)

(***************************************************************************)
(* The Type Normalizer: class LshwNormalizer                               *)
(***************************************************************************)
numeric_fields ==
  {"latency", "cores", "enabledcores", "microcode", "threads", "level", "ansiversion",
   "size", "capacity", "width", "clock", "units", "depth", "FATs", "logicalsectorsize",
   "sectorsize"}

boolean_fields ==
  {"claimed", "disabled", "boot", "broadcast", "link", "multicast", "slave", "removable",
   "audio", "dvd"}

capability_boolean_patterns ==
  {"pci", "pciexpress", "pm", "msi", "msix", "bus_master", "cap_list", "rom", "fb", "pnp",
   "upgrade", "shadowing", "cdboot", "bootselect", "edd", "usb", "netboot", "acpi",
   "biosbootspecification", "uefi", "escd", "virtualmachine", "smp", "vsyscall32",
   "gpt-1_00", "partitioned", "partitioned:gpt", "nofs", "fat", "initialized",
   "journaled", "extended_attributes", "large_files", "huge_files", "dir_nlink",
   "recover", "extents", "ethernet", "physical", "removable", "audio", "dvd"}

negative_words == {" no ", "not ", "none", "disabled", "unsupported", "unavailable"}

\* An is_valid_lshw that asks for "id" only.
is_valid_without_class(data) ==
  /\ IsDict(data) /\ HasKey(data, "hardware")
  /\ IsDict(Item(data, "hardware")) /\ HasKey(Item(data, "hardware"), "data")
  /\ IsDict(Item(Item(data, "hardware"), "data"))
  /\ HasKey(Item(Item(data, "hardware"), "data"), "id")

is_valid_lshw(data) ==
  IF ~IsDict(data) THEN FALSE
  ELSE IF ~HasKey(data, "hardware") THEN FALSE
  ELSE LET hardware == Item(data, "hardware") IN
       IF ~IsDict(hardware) THEN FALSE
       ELSE IF ~HasKey(hardware, "data") THEN FALSE
       ELSE LET lshw_data == Item(hardware, "data") IN
            IF ~IsDict(lshw_data) THEN FALSE
            ELSE HasKey(lshw_data, "id") /\ HasKey(lshw_data, "class")

\* A normalize_boolean that takes every string but the words for false as true.
normalize_boolean_by_default(value) ==
  IF IsBool(value) THEN value
  ELSE IF IsStr(value) /\ Strip(Lower(value.s)) \in {"false", "no", "0", "off"} THEN PyBool(FALSE)
  ELSE IF IsStr(value) THEN PyBool(TRUE)
  ELSE IF IsNumber(value) THEN PyBool(Truthy(value))
  ELSE value

normalize_boolean(value) ==
  IF IsBool(value) THEN value
  ELSE IF IsStr(value) /\ Strip(Lower(value.s)) \in {"true", "yes", "1", "on"} THEN PyBool(TRUE)
  ELSE IF IsStr(value) /\ Strip(Lower(value.s)) \in {"false", "no", "0", "off"} THEN PyBool(FALSE)
  ELSE IF IsNumber(value) THEN PyBool(Truthy(value))
  ELSE value

normalize_numeric(value) ==
  IF IsNumber(value) THEN value
  ELSE IF IsStr(value) /\ IntParses(value.s) THEN PyInt(IntValue(value.s))
  ELSE IF IsStr(value) /\ FloatParses(value.s) THEN FloatValue(value.s)
  ELSE value

\* A normalize_logicalname that wraps a list as it wraps a string.
normalize_logicalname_nested(value) ==
  IF IsList(value) \/ IsStr(value) THEN PyList(<<value>>) ELSE value

normalize_logicalname(value) ==
  IF IsList(value) THEN value
  ELSE IF IsStr(value) THEN PyList(<<value>>)
  ELSE value

normalize_configuration(config) ==
  PyDict([i \in 1..Len(config.d) |->
    LET key == config.d[i][1]
        value == config.d[i][2]
    IN <<key, IF key \in boolean_fields THEN normalize_boolean(value)
              ELSE IF key \in numeric_fields THEN normalize_numeric(value)
              ELSE value>>])

\* The value normalize_capabilities stores for one capability entry.
normalize_capability(key, value) ==
  IF key \in capability_boolean_patterns \/ IsBool(value)
  THEN IF IsStr(value)
       THEN LET lower_val == Strip(Lower(value.s)) IN
            IF lower_val \in {"true", "false", "yes", "no", "1", "0"} THEN normalize_boolean(value)
            ELSE IF \E neg \in negative_words : Contains(lower_val, neg) THEN PyBool(FALSE)
            ELSE PyBool(TRUE)
       ELSE value
  ELSE value

normalize_capabilities(capabilities) ==
  PyDict([i \in 1..Len(capabilities.d) |->
    <<capabilities.d[i][1], normalize_capability(capabilities.d[i][1], capabilities.d[i][2])>>])

\* str(value), of None as well.
force_string_always(value) == PyStr(StrOf(value))

\* str(value) if value is not None else value
force_string(value) == IF value = PyNone THEN value ELSE PyStr(StrOf(value))

RECURSIVE normalize_node(_)
normalize_node(node) ==
  IF IsDict(node)
  THEN PyDict([i \in 1..Len(node.d) |->
         LET key == node.d[i][1]
             value == node.d[i][2]
         IN <<key,
              IF key = "configuration" /\ IsDict(value) THEN normalize_configuration(value)
              ELSE IF key = "capabilities" /\ IsDict(value) THEN normalize_capabilities(value)
              ELSE IF key = "logicalname" THEN normalize_logicalname(value)
              ELSE IF key = "physid" THEN force_string(value)
              ELSE IF key = "version" THEN force_string(value)
              ELSE IF key \in boolean_fields THEN normalize_boolean(value)
              ELSE IF key \in numeric_fields THEN normalize_numeric(value)
              ELSE IF IsDict(value) THEN normalize_node(value)
              ELSE IF IsList(value)
                   THEN PyList([j \in 1..Len(value.l) |->
                          IF IsDict(value.l[j]) \/ IsList(value.l[j])
                          THEN normalize_node(value.l[j]) ELSE value.l[j]])
              ELSE value>>])
  ELSE IF IsList(node)
  THEN PyList([i \in 1..Len(node.l) |->
         IF IsDict(node.l[i]) \/ IsList(node.l[i]) THEN normalize_node(node.l[i]) ELSE node.l[i]])
  ELSE node

\* The wrapper normalize() rebuilds around the normalized data sub-tree.
reconstruct_wrapper(input_data) ==
  LET hardware == GetItem(input_data, "hardware")
      lshw_data == GetItem(hardware, "data")
  IN IF IsRaise(lshw_data) THEN lshw_data
     ELSE Obj(<< <<"hardware",
                   Obj(<< <<"node", DictGet(hardware, "node", PyNone)>>,
                          <<"data", normalize_node(lshw_data)>>,
                          <<"error", DictGet(hardware, "error", PyStr(""))>> >>)>> >>)

\* The body of normalize()'s try block.
normalize_try(input_name, input_data) ==
  IF ~is_valid_lshw(input_data) THEN EmptyDict ELSE reconstruct_wrapper(input_data)

\* A normalize without validation and without the try block.
normalize_unchecked(input_name, input_data) == reconstruct_wrapper(input_data)

\* LshwNormalizer.normalize: every exception of the try block ends in dict().
LshwNormalizer_normalize(input_name, input_data) ==
  LET r == normalize_try(input_name, input_data) IN IF IsRaise(r) THEN EmptyDict ELSE r

\* The module's normalize(input_name, input_data), on a fresh LshwNormalizer.
lshw_normalize(input_name, input_data) == LshwNormalizer_normalize(input_name, input_data)

(***************************************************************************)
(* Python operations the Hardware Extractor applies to capture values      *)
(***************************************************************************)
\* k in v, for a string k: a key of a mapping, a substring of a string, an
\* element of a list; TypeError for a value that is not iterable.
PyIn(k, v) ==
  CASE IsDict(v) -> PyBool(HasKey(v, k))
    [] IsStr(v) -> PyBool(Contains(v.s, k))
    [] IsList(v) -> PyBool(\E i \in 1..Len(v.l) : v.l[i] = PyStr(k))
    [] OTHER -> Raise("TypeError")

\* The items "for x in v" visits: the elements of a list, the keys of a mapping,
\* the characters of a string; TypeError for a value that is not iterable.
PyIter(v) ==
  CASE IsList(v) -> v
    [] IsDict(v) -> PyList([i \in 1..Len(v.d) |-> PyStr(v.d[i][1])])
    [] IsStr(v) -> PyList([i \in 1..Len(v.s) |-> PyStr(CharAt(v.s, i))])
    [] OTHER -> Raise("TypeError")

\* v.lower() and v.upper(): AttributeError for a value that is no string.
PyLower(v) == IF IsStr(v) THEN PyStr(Lower(v.s)) ELSE Raise("AttributeError")
PyUpper(v) == IF IsStr(v) THEN PyStr(Upper(v.s)) ELSE Raise("AttributeError")

\* The value of an int or a bool.
IntOf(v) == IF v.t = "bool" THEN (IF v.b THEN 1 ELSE 0) ELSE v.n

\* A finite number's value in thousandths.
Milli(v) == IF v.t = "float" THEN v.milli ELSE 1000 * IntOf(v)

\* The sum of two special or finite floats, one of them special.
AddSpecial(a, b) ==
  LET sa == IF a.t = "fspecial" THEN a.s ELSE "fin"
      sb == IF b.t = "fspecial" THEN b.s ELSE "fin"
  IN IF sa = "nan" \/ sb = "nan" THEN PyFloatSpecial("nan")
     ELSE IF {sa, sb} = {"inf", "-inf"} THEN PyFloatSpecial("nan")
     ELSE IF "inf" \in {sa, sb} THEN PyFloatSpecial("inf")
     ELSE PyFloatSpecial("-inf")

\* a + b with a a number: TypeError unless b is a number too.
PyAdd(a, b) ==
  IF ~IsNumber(b) THEN Raise("TypeError")
  ELSE IF a.t = "fspecial" \/ b.t = "fspecial" THEN AddSpecial(a, b)
  ELSE IF a.t = "float" \/ b.t = "float" THEN PyFloat(Milli(a) + Milli(b))
  ELSE PyInt(IntOf(a) + IntOf(b))

\* num / den rounded to the nearest integer, a tie going to the even one
\* (num >= 0, den > 0).
RoundHalfEven(num, den) ==
  LET q == num \div den
      r == num % den
  IN IF 2 * r < den THEN q
     ELSE IF 2 * r > den THEN q + 1
     ELSE IF q % 2 = 0 THEN q ELSE q + 1

\* 10 * num / den rounded to the nearest integer, a tie going to the even one
\* (num >= 0, den > 0).
RoundTenths(num, den) == 10 * (num \div den) + RoundHalfEven(10 * (num % den), den)

\* num / den cut towards zero (den > 0).
TruncDiv(num, den) == IF num >= 0 THEN num \div den ELSE -((-num) \div den)

Abs(n) == IF n < 0 THEN -n ELSE n
Sign(n) == IF n < 0 THEN -1 ELSE 1

\* int(v / divisor) of a value v: TypeError unless v is a number.
PyIntDiv(v, divisor) ==
  IF ~IsNumber(v) THEN Raise("TypeError")
  ELSE IF v.t = "fspecial" THEN Raise(IF v.s = "nan" THEN "ValueError" ELSE "OverflowError")
  ELSE IF v.t = "float" THEN PyInt(TruncDiv(v.milli, 1000 * divisor))
  ELSE PyInt(TruncDiv(IntOf(v), divisor))

\* round(v / divisor, 1) of a value v, a float counted in thousandths: TypeError
\* unless v is a number.
PyRoundDiv1(v, divisor) ==
  IF ~IsNumber(v) THEN Raise("TypeError")
  ELSE IF v.t = "fspecial" THEN v
  ELSE IF v.t = "float"
  THEN PyFloat(Sign(v.milli) * 100 * RoundHalfEven(Abs(v.milli), 100 * divisor))
  ELSE PyFloat(Sign(IntOf(v)) * 100 * RoundTenths(Abs(IntOf(v)), divisor))

\* int(v) if isinstance(v, str) else v: ValueError for a string int() rejects.
IntIfStr(v) ==
  IF IsStr(v) THEN (IF IntParses(v.s) THEN PyInt(IntValue(v.s)) ELSE Raise("ValueError")) ELSE v

(***************************************************************************)
(* Regular expressions of the Hardware Extractor, each matched as the re   *)
(* module matches it                                                       *)
(***************************************************************************)
HexDigits == "0123456789abcdefABCDEF"
IsHex(c) == IsIn(c, HexDigits)
\* [0-9A-Fa-f]+
IsHexRun(s) == s # "" /\ \A i \in 1..Len(s) : IsHex(CharAt(s, i))
\* [0-9A-Fa-f]+:[0-9A-Fa-f]+
IsHexPair(s) ==
  /\ FirstOf(s, {":"}) # 0
  /\ IsHexRun(SubSeq(s, 1, FirstOf(s, {":"}) - 1))
  /\ IsHexRun(SubSeq(s, FirstOf(s, {":"}) + 1, Len(s)))
\* [^)]+
IsParenContent(s) == s # "" /\ \A i \in 1..Len(s) : CharAt(s, i) # ")"

\* Group 1 of ^(.+?)\s*<open>... for the opening bracket at p: the shortest prefix
\* that only whitespace separates from that bracket.
BracketBase(s, p) ==
  LET k == CHOOSE k \in 1..(p - 1) :
             /\ \A j \in (k + 1)..(p - 1) : IsSpace(CharAt(s, j))
             /\ \A h \in 1..(k - 1) : \E j \in (h + 1)..(p - 1) : ~IsSpace(CharAt(s, j))
  IN SubSeq(s, 1, k)

\* What the $ of a pattern takes for the end of s: s without one final newline.
BeforeDollar(s) ==
  IF s # "" /\ CharAt(s, Len(s)) = "\n" THEN SubSeq(s, 1, Len(s) - 1) ELSE s

\* For ^(.+?)\s*<open>(<content>)<close> on a string that ends where $ stands: the
\* position of the opening bracket, or 0 when the string does not match. The lazy
\* group 1, which holds no newline, makes it the first opening bracket whose
\* content fits.
BracketAt(s, open, close, ContentOK(_)) ==
  LET n == Len(s)
      fits(p) == /\ CharAt(s, p) = open
                 /\ ContentOK(SubSeq(s, p + 1, n - 1))
                 /\ ~Contains(BracketBase(s, p), "\n")
  IN IF n >= 4 /\ CharAt(s, n) = close /\ \E p \in 2..(n - 2) : fits(p)
     THEN CHOOSE p \in 2..(n - 2) : fits(p) /\ \A q \in 2..(p - 1) : ~fits(q)
     ELSE 0

\* The content between the bracket at p and the closing bracket that ends s.
BracketContent(s, p) == SubSeq(s, p + 1, Len(s) - 1)

\* The longest prefix of s whose characters all satisfy Ok.
TakeWhile(s, Ok(_)) ==
  LET n == CHOOSE n \in 0..Len(s) :
             /\ \A i \in 1..n : Ok(CharAt(s, i))
             /\ n < Len(s) => ~Ok(CharAt(s, n + 1))
  IN SubSeq(s, 1, n)

Tuple(items) == [t |-> "tuple", v |-> items]

(***************************************************************************)
(* The Hardware Extractor: class HardwareInfo                              *)
(***************************************************************************)
RECURSIVE _find_nodes_by_class(_, _)
RECURSIVE find_in_children(_, _)

\* The loop of _find_nodes_by_class over the children.
find_in_children(children, class_name) ==
  IF children = <<>> THEN PyList(<<>>)
  ELSE Try(_find_nodes_by_class(children[1], class_name), LAMBDA first :
       Try(find_in_children(Tail(children), class_name), LAMBDA others :
       PyList(first.l \o others.l)))

_find_nodes_by_class(node, class_name) ==
  IF ~IsDict(node) THEN PyList(<<>>)
  ELSE Try(PyIter(DictGet(node, "children", PyList(<<>>))), LAMBDA children :
       Try(find_in_children(children.l, class_name), LAMBDA below :
       PyList((IF DictGet(node, "class", PyNone) = PyStr(class_name) THEN <<node>> ELSE <<>>)
              \o below.l)))

\* As _parse_vendor_string, but the name keeps the whitespace before the bracket.
parse_vendor_string_untrimmed(vendor_str) ==
  IF ~Truthy(vendor_str) THEN Tuple(<<PyNone, PyNone>>)
  ELSE IF ~IsStr(vendor_str) THEN Raise("TypeError")
  ELSE Let(BeforeDollar(vendor_str.s), LAMBDA text :
       Let(BracketAt(text, "[", "]", IsHexRun), LAMBDA p :
       IF p # 0
       THEN Tuple(<<PyStr(SubSeq(text, 1, p - 1)), PyStr(Upper(BracketContent(text, p)))>>)
       ELSE Tuple(<<vendor_str, PyNone>>)))

_parse_vendor_string(vendor_str) ==
  IF ~Truthy(vendor_str) THEN Tuple(<<PyNone, PyNone>>)
  ELSE IF ~IsStr(vendor_str) THEN Raise("TypeError")
  ELSE Let(BeforeDollar(vendor_str.s), LAMBDA text :
       Let(BracketAt(text, "[", "]", IsHexRun), LAMBDA p :
       IF p # 0
       THEN Tuple(<<PyStr(Strip(BracketBase(text, p))), PyStr(Upper(BracketContent(text, p)))>>)
       ELSE Tuple(<<vendor_str, PyNone>>)))

\* The vendor and device of "<vendor>:<device>", uppercased.
product_ids(ids, colon) ==
  <<PyStr(Upper(SubSeq(ids, 1, colon - 1))), PyStr(Upper(SubSeq(ids, colon + 1, Len(ids))))>>

_parse_product_string(product_str) ==
  IF ~Truthy(product_str) THEN Tuple(<<PyNone, PyNone, PyNone>>)
  ELSE IF ~IsStr(product_str) THEN Raise("TypeError")
  ELSE Let(BeforeDollar(product_str.s), LAMBDA text :
       Let(BracketAt(text, "[", "]", IsHexPair), LAMBDA p :
       IF p # 0
       THEN Tuple(<<PyStr(Strip(BracketBase(text, p)))>>
                  \o product_ids(BracketContent(text, p), FirstOf(BracketContent(text, p), {":"})))
       ELSE Tuple(<<product_str, PyNone, PyNone>>)))

\* re.search(r"SKU=([^;]+)", text): group 1, or "" when nothing matches (a match's
\* group 1 is never empty).
sku_search(text) ==
  Let(First({i \in 1..(Len(text) - 4) : SubSeq(text, i, i + 3) = "SKU=" /\ CharAt(text, i + 4) # ";"}),
      LAMBDA i : IF i = 0 THEN ""
                 ELSE TakeWhile(SubSeq(text, i + 4, Len(text)), LAMBDA c : c # ";"))

\* As system_model_of, but a SKU of "NotProvided" is kept as it is.
system_model_of_provided(base_model, paren_content) ==
  IF ~Contains(paren_content, "SKU=") THEN Tuple(<<PyStr(base_model), PyStr(paren_content)>>)
  ELSE Let(sku_search(paren_content), LAMBDA found :
       IF found = "" THEN Tuple(<<PyStr(base_model), PyStr(paren_content)>>)
       ELSE Tuple(<<PyStr(base_model), PyStr(Strip(found))>>))

\* The model and SKU of a product string "<base_model> (<paren_content>)".
system_model_of(base_model, paren_content) ==
  IF ~Contains(paren_content, "SKU=") THEN Tuple(<<PyStr(base_model), PyStr(paren_content)>>)
  ELSE Let(sku_search(paren_content), LAMBDA found :
       IF found = "" THEN Tuple(<<PyStr(base_model), PyStr(paren_content)>>)
       ELSE Let(Strip(found), LAMBDA sku :
            IF sku = "NotProvided" THEN Tuple(<<PyStr(base_model), PyNone>>)
            ELSE Tuple(<<PyStr(base_model), PyStr(sku)>>)))

_parse_system_model(product_str) ==
  IF ~Truthy(product_str) THEN Tuple(<<PyNone, PyNone>>)
  ELSE IF ~IsStr(product_str) THEN Raise("TypeError")
  ELSE Let(BeforeDollar(product_str.s), LAMBDA text :
       Let(BracketAt(text, "(", ")", IsParenContent), LAMBDA p :
       IF p = 0 THEN Tuple(<<product_str, PyNone>>)
       ELSE system_model_of(Strip(BracketBase(text, p)), Strip(BracketContent(text, p)))))

\* s after its first Len(field) + 1 characters.
After(s, field) == SubSeq(s, Len(field) + 2, Len(s))

\* Whether s is field, then the character sep, then more.
Before(s, field, sep) == field # "" /\ Len(s) > Len(field) /\ CharAt(s, Len(field) + 1) = sep

\* The device field of pci@<domain>:<bus>:<device>.<function>, or "" when the
\* address does not match.
pci_device_field(businfo) ==
  Let(SubSeq(businfo, 5, Len(businfo)), LAMBDA a :
  Let(TakeWhile(a, IsHex), LAMBDA domain :
  IF ~Before(a, domain, ":") THEN ""
  ELSE Let(After(a, domain), LAMBDA b :
       Let(TakeWhile(b, IsHex), LAMBDA bus :
       IF ~Before(b, bus, ":") THEN ""
       ELSE Let(After(b, bus), LAMBDA c :
            Let(TakeWhile(c, IsHex), LAMBDA device :
            IF /\ Before(c, device, ".")
               /\ Len(c) >= Len(device) + 2
               /\ IsHex(CharAt(c, Len(device) + 2))
            THEN device ELSE ""))))))

\* An _is_virtual_function that reads the device field as a number.
is_nonzero_device(businfo) ==
  IF ~Truthy(businfo) THEN PyBool(FALSE)
  ELSE IF ~IsStr(businfo) THEN Raise("AttributeError")
  ELSE IF ~StartsWith(businfo.s, "pci@") THEN PyBool(FALSE)
  ELSE Let(pci_device_field(businfo.s), LAMBDA device :
       PyBool(\E i \in 1..Len(device) : CharAt(device, i) # "0"))

_is_virtual_function(businfo) ==
  IF ~Truthy(businfo) THEN PyBool(FALSE)
  ELSE IF ~IsStr(businfo) THEN Raise("AttributeError")
  ELSE IF ~StartsWith(businfo.s, "pci@") THEN PyBool(FALSE)
  ELSE Let(pci_device_field(businfo.s), LAMBDA device :
       IF device = "" THEN PyBool(FALSE) ELSE PyBool(device # "00"))

\* Sizes of memory and disk nodes are counted in units of SizeUnit bytes, TLC's
\* integers being 32 bits wide; 1024**3 bytes are then GiB units.
SizeUnit == 1024 * 1024
GiB == (1024 * 1024 * 1024) \div SizeUnit
\* Hz per MHz
MHz == 1000000

\* config.get(key) if isinstance(config, dict) else None
ConfigGet(config, key) == IF IsDict(config) THEN DictGet(config, key, PyNone) ELSE PyNone

_extract_system_info(self) ==
  Try(MethodGet(self.data, "product", PyNone), LAMBDA product :
  Try(_parse_system_model(product), LAMBDA parsed :
  PyDict(<< <<"system_vendor", DictGet(self.data, "vendor", PyNone)>>,
            <<"system_model", parsed.v[1]>>,
            <<"system_sku", parsed.v[2]>>,
            <<"system_family",
              ConfigGet(DictGet(self.data, "configuration", EmptyDict), "family")>> >>)))

RECURSIVE find_firmware(_)
RECURSIVE find_firmware_in(_)

\* The loop of find_firmware over the children: the first child that holds one.
find_firmware_in(children) ==
  IF children = <<>> THEN PyNone
  ELSE Let(find_firmware(children[1]), LAMBDA found :
       IF IsRaise(found) \/ Truthy(found) THEN found ELSE find_firmware_in(Tail(children)))

find_firmware(node) ==
  IF ~IsDict(node) THEN PyNone
  ELSE IF DictGet(node, "id", PyNone) = PyStr("firmware")
          /\ DictGet(node, "class", PyNone) = PyStr("memory") THEN node
  ELSE Try(PyIter(DictGet(node, "children", PyList(<<>>))), LAMBDA children :
       find_firmware_in(children.l))

\* A bios_type that looks for EFI first.
bios_type_efi_first(description, capabilities) ==
  IF Contains(description, "EFI") THEN "EFI"
  ELSE IF IsDict(capabilities) /\ HasKey(capabilities, "uefi") THEN "UEFI"
  ELSE "BIOS"

\* The bios_type of a firmware node whose uppercased description is given.
bios_type(description, capabilities) ==
  IF Contains(description, "UEFI") \/ (IsDict(capabilities) /\ HasKey(capabilities, "uefi"))
  THEN "UEFI"
  ELSE IF Contains(description, "EFI") THEN "EFI"
  ELSE "BIOS"

\* The result of _extract_bios_info for the firmware node found.
bios_of(firmware_node) ==
  Try(PyUpper(DictGet(firmware_node, "description", PyStr(""))), LAMBDA description :
  PyDict(<< <<"bios_vendor", DictGet(firmware_node, "vendor", PyNone)>>,
            <<"bios_version", DictGet(firmware_node, "version", PyNone)>>,
            <<"bios_date", DictGet(firmware_node, "date", PyNone)>>,
            <<"bios_type", PyStr(bios_type(description.s,
                                           DictGet(firmware_node, "capabilities", EmptyDict)))>> >>))

_extract_bios_info(self) ==
  Try(find_firmware(self.data), LAMBDA firmware_node :
  IF ~Truthy(firmware_node)
  THEN PyDict(<< <<"bios_vendor", PyNone>>, <<"bios_version", PyNone>>,
                 <<"bios_date", PyNone>>, <<"bios_type", PyNone>> >>)
  ELSE bios_of(firmware_node))

\* An add_count that assigns instead of adding.
last_count(total, v) == IF ~Truthy(v) THEN total ELSE IntIfStr(v)

\* total += int(v) if isinstance(v, str) else v, under "if v:".
add_count(total, v) ==
  IF ~Truthy(v) THEN total ELSE Try(IntIfStr(v), LAMBDA n : PyAdd(total, n))

RECURSIVE cpu_totals(_, _, _)
\* The loop of _extract_cpu_info over the processor nodes.
cpu_totals(cpus, total_cores, total_threads) ==
  IF cpus = <<>> THEN Tuple(<<total_cores, total_threads>>)
  ELSE Let(DictGet(cpus[1], "configuration", EmptyDict), LAMBDA config :
       IF ~IsDict(config) THEN cpu_totals(Tail(cpus), total_cores, total_threads)
       ELSE Try(add_count(total_cores, DictGet(config, "cores", PyNone)), LAMBDA cores :
            Try(add_count(total_threads, DictGet(config, "threads", PyNone)), LAMBDA threads :
            cpu_totals(Tail(cpus), cores, threads))))

\* int(cpu_freq_hz / 1000000) if cpu_freq_hz else None
frequency_mhz(cpu_freq_hz) == IF Truthy(cpu_freq_hz) THEN PyIntDiv(cpu_freq_hz, MHz) ELSE PyNone

\* The result of _extract_cpu_info for a non-empty list of processor nodes.
cpu_of(cpus, first_cpu) ==
  Try(_parse_vendor_string(DictGet(first_cpu, "vendor", PyNone)), LAMBDA vendor :
  Try(frequency_mhz(DictGet(first_cpu, "size", PyNone)), LAMBDA cpu_frequency_mhz :
  Try(cpu_totals(cpus, PyInt(0), PyInt(0)), LAMBDA totals :
  PyDict(<< <<"cpu_vendor", vendor.v[1]>>,
            <<"cpu_model", DictGet(first_cpu, "product", PyNone)>>,
            <<"cpu_sockets", PyInt(Len(cpus))>>,
            <<"cpu_total_cores", totals.v[1]>>,
            <<"cpu_total_threads", totals.v[2]>>,
            <<"cpu_frequency_mhz", cpu_frequency_mhz>> >>))))

_extract_cpu_info(self) ==
  Try(_find_nodes_by_class(self.data, "processor"), LAMBDA cpus :
  IF ~Truthy(cpus)
  THEN PyDict(<< <<"cpu_vendor", PyNone>>, <<"cpu_model", PyNone>>, <<"cpu_sockets", PyInt(0)>>,
                 <<"cpu_total_cores", PyInt(0)>>, <<"cpu_total_threads", PyInt(0)>>,
                 <<"cpu_frequency_mhz", PyNone>> >>)
  ELSE cpu_of(cpus.l, cpus.l[1]))

\* total_bytes += size, under "if size:".
add_size(total_bytes, size) == IF Truthy(size) THEN PyAdd(total_bytes, size) ELSE total_bytes

\* An add_memory_size that adds the size of every memory node.
add_any_memory_size(total_bytes, mem_node, node_id) ==
  add_size(total_bytes, DictGet(mem_node, "size", PyNone))

\* The size one memory node adds to total_bytes.
add_memory_size(total_bytes, mem_node, node_id) ==
  IF node_id = PyStr("memory") \/ (IsStr(node_id) /\ StartsWith(node_id.s, "memory:"))
  THEN Try(PyIn("System Memory", DictGet(mem_node, "description", PyStr(""))), LAMBDA system :
       IF system.b \/ node_id = PyStr("memory")
       THEN add_size(total_bytes, DictGet(mem_node, "size", PyNone))
       ELSE total_bytes)
  ELSE total_bytes

RECURSIVE count_dimms(_, _)
\* The loop over the children of one memory node.
count_dimms(children, dimm_count) ==
  IF children = <<>> THEN PyInt(dimm_count)
  ELSE Try(MethodGet(children[1], "class", PyNone), LAMBDA class :
       count_dimms(Tail(children),
                   IF class = PyStr("memory") /\ Truthy(DictGet(children[1], "size", PyNone))
                   THEN dimm_count + 1 ELSE dimm_count))

RECURSIVE memory_totals(_, _, _)
\* The loop of _extract_memory_info over the memory nodes.
memory_totals(memory_nodes, total_bytes, dimm_count) ==
  IF memory_nodes = <<>> THEN Tuple(<<total_bytes, PyInt(dimm_count)>>)
  ELSE Try(add_memory_size(total_bytes, memory_nodes[1], DictGet(memory_nodes[1], "id", PyStr(""))),
           LAMBDA bytes :
       Try(PyIter(DictGet(memory_nodes[1], "children", PyList(<<>>))), LAMBDA children :
       Try(count_dimms(children.l, dimm_count), LAMBDA dimms :
       memory_totals(Tail(memory_nodes), bytes, dimms.n))))

\* A total_gb that is None when nothing was added.
total_gb_or_none(total_bytes) ==
  IF Truthy(total_bytes) THEN PyRoundDiv1(total_bytes, GiB) ELSE PyNone

\* round(total_bytes / (1024**3), 1) if total_bytes else 0.0
total_gb(total_bytes) == IF Truthy(total_bytes) THEN PyRoundDiv1(total_bytes, GiB) ELSE PyFloat(0)

_extract_memory_info(self) ==
  Try(_find_nodes_by_class(self.data, "memory"), LAMBDA memory_nodes :
  Try(memory_totals(memory_nodes.l, PyInt(0), 0), LAMBDA totals :
  PyDict(<< <<"memory_total_gb", total_gb(totals.v[1])>>,
            <<"memory_dimm_count", totals.v[2]>> >>)))

Whitespace == {" ", "\t", "\n", "\r"}

RECURSIVE SplitOn(_, _, _)
\* The non-empty pieces of s between characters of seps; cur is the piece being read.
SplitOn(s, seps, cur) ==
  IF s = "" THEN (IF cur = "" THEN <<>> ELSE <<cur>>)
  ELSE IF CharAt(s, 1) \in seps
  THEN (IF cur = "" THEN <<>> ELSE <<cur>>) \o SplitOn(Rest(s), seps, "")
  ELSE SplitOn(Rest(s), seps, cur \o CharAt(s, 1))

\* str.split()
Split(s) == SplitOn(s, Whitespace, "")

RECURSIVE Join(_, _)
\* sep.join(parts)
Join(parts, sep) ==
  IF parts = <<>> THEN ""
  ELSE IF Len(parts) = 1 THEN parts[1]
  ELSE parts[1] \o sep \o Join(Tail(parts), sep)

RECURSIVE Remove(_, _)
\* s.replace(old, "")
Remove(s, old) ==
  IF Len(s) < Len(old) THEN s
  ELSE IF SubSeq(s, 1, Len(old)) = old THEN Remove(SubSeq(s, Len(old) + 1, Len(s)), old)
  ELSE CharAt(s, 1) \o Remove(Rest(s), old)

IsDigitOrDot(c) == IsDigit(c) \/ c = "."
IsNotCloseParen(c) == c # ")"

\* What follows "NCSI" at position i, the whitespace before it left out.
ncsi_after(s, i) == LStrip(SubSeq(s, i + 4, Len(s)))

\* Whether NCSI\s+(v[\d.]+) matches at position i, after being what follows.
ncsi_hit(s, i, after) ==
  /\ SubSeq(s, i, i + 3) = "NCSI"
  /\ IsSpace(CharAt(s, i + 4))
  /\ Len(after) >= 2
  /\ CharAt(after, 1) = "v"
  /\ IsDigitOrDot(CharAt(after, 2))

\* re.search(r"NCSI\s+(v[\d.]+)", s): group 1, or "" when nothing matches.
ncsi_search(s) ==
  Let(First({i \in 1..(Len(s) - 4) : ncsi_hit(s, i, ncsi_after(s, i))}), LAMBDA i :
      IF i = 0 THEN "" ELSE "v" \o TakeWhile(Rest(ncsi_after(s, i)), IsDigitOrDot))

\* re.match(r"^([\d.]+)\s*\(([^)]+)\)", s): groups 1 and 2, or <<>> when s does not
\* match.
mellanox_match(s) ==
  Let(TakeWhile(s, IsDigitOrDot), LAMBDA version :
  Let(LStrip(SubSeq(s, Len(version) + 1, Len(s))), LAMBDA rest :
  IF version = "" \/ rest = "" \/ CharAt(rest, 1) # "(" THEN <<>>
  ELSE Let(TakeWhile(Rest(rest), IsNotCloseParen), LAMBDA psid :
       IF psid # "" /\ Len(rest) >= Len(psid) + 2 THEN <<version, psid>> ELSE <<>>)))

\* The position of "bc" in parts, or 0.
bc_index(parts) == First({i \in 1..Len(parts) : parts[i] = "bc"})

\* primary = parts[0] if parts else firmware_str
first_part(parts, firmware_str) == IF parts # <<>> THEN parts[1] ELSE firmware_str.s

\* A field of a parsed firmware string: None when there is none.
opt(x) == IF x = "" THEN PyNone ELSE PyStr(x)

\* The six fields of a parsed firmware string, some of them None.
firmware_fields(primary, extended, bootcode, nvm, psid, ncsi) ==
  PyDict(<< <<"primary", primary>>, <<"extended", opt(extended)>>,
            <<"bootcode", opt(bootcode)>>, <<"nvm", opt(nvm)>>, <<"psid", opt(psid)>>,
            <<"ncsi", opt(ncsi)>> >>)

\* " ".join(parts[1:]) if len(parts) > 1 else None
extended_of(parts) == IF Len(parts) > 1 THEN Join(Tail(parts), " ") ELSE ""

\* The part after "bc", when there is one.
bootcode_of(parts, bc_idx) ==
  IF bc_idx # 0 /\ bc_idx + 1 <= Len(parts) THEN parts[bc_idx + 1] ELSE ""

\* The Broadcom branch of _parse_firmware_string.
broadcom_firmware(firmware_str, parts) ==
  firmware_fields(PyStr(first_part(parts, firmware_str)), extended_of(parts),
                  bootcode_of(parts, bc_index(parts)), "", "",
                  IF Contains(firmware_str.s, "NCSI") THEN ncsi_search(firmware_str.s) ELSE "")

\* The Intel branch of _parse_firmware_string.
intel_firmware(firmware_str, parts) ==
  firmware_fields(PyStr(first_part(parts, firmware_str)),
                  IF Len(parts) >= 3 THEN "NVM " \o parts[Len(parts)] ELSE extended_of(parts),
                  "",
                  IF Len(parts) >= 3 THEN parts[Len(parts)] ELSE "",
                  "", "")

\* The Mellanox branch of _parse_firmware_string.
mellanox_firmware(firmware_str, match) ==
  IF match # <<>>
  THEN firmware_fields(PyStr(match[1]), "PSID: " \o match[2], "", "", match[2], "")
  ELSE firmware_fields(firmware_str, "", "", "", "", "")

\* The branch of _parse_firmware_string for any other vendor.
generic_firmware(firmware_str, parts) ==
  firmware_fields(PyStr(first_part(parts, firmware_str)), extended_of(parts), "", "", "", "")

\* A firmware_of that asks for intel before broadcom.
firmware_of_intel_first(firmware_str, vendor_lower) ==
  IF Contains(vendor_lower, "intel")
  THEN IF ~IsStr(firmware_str) THEN Raise("AttributeError")
       ELSE intel_firmware(firmware_str, SplitOn(Strip(firmware_str.s), Whitespace \cup {","}, ""))
  ELSE IF Contains(vendor_lower, "broadcom")
  THEN IF ~IsStr(firmware_str) THEN Raise("AttributeError")
       ELSE broadcom_firmware(firmware_str, Split(firmware_str.s))
  ELSE IF Contains(vendor_lower, "mellanox")
  THEN IF ~IsStr(firmware_str) THEN Raise("TypeError")
       ELSE mellanox_firmware(firmware_str, mellanox_match(firmware_str.s))
  ELSE IF Contains(vendor_lower, "red hat") \/ Contains(vendor_lower, "virtio")
  THEN firmware_fields(firmware_str, "", "", "", "", "")
  ELSE IF ~IsStr(firmware_str) THEN Raise("AttributeError")
       ELSE generic_firmware(firmware_str, Split(firmware_str.s))

\* _parse_firmware_string for a firmware string that is not empty.
firmware_of(firmware_str, vendor_lower) ==
  IF Contains(vendor_lower, "broadcom")
  THEN IF ~IsStr(firmware_str) THEN Raise("AttributeError")
       ELSE broadcom_firmware(firmware_str, Split(firmware_str.s))
  ELSE IF Contains(vendor_lower, "intel")
  THEN IF ~IsStr(firmware_str) THEN Raise("AttributeError")
       ELSE intel_firmware(firmware_str, SplitOn(Strip(firmware_str.s), Whitespace \cup {","}, ""))
  ELSE IF Contains(vendor_lower, "mellanox")
  THEN IF ~IsStr(firmware_str) THEN Raise("TypeError")
       ELSE mellanox_firmware(firmware_str, mellanox_match(firmware_str.s))
  ELSE IF Contains(vendor_lower, "red hat") \/ Contains(vendor_lower, "virtio")
  THEN firmware_fields(firmware_str, "", "", "", "", "")
  ELSE IF ~IsStr(firmware_str) THEN Raise("AttributeError")
       ELSE generic_firmware(firmware_str, Split(firmware_str.s))

_parse_firmware_string(firmware_str, vendor_name) ==
  IF ~Truthy(firmware_str)
  THEN PyDict(<< <<"primary", PyNone>>, <<"extended", PyNone>> >>)
  ELSE firmware_of(firmware_str, Lower(IF Truthy(vendor_name) THEN vendor_name.s ELSE ""))

\* vendor_id if it is not None, else the product string's vendor id.
fill_vendor_id(vendor_id, prod_vendor_id) ==
  IF vendor_id = PyNone /\ prod_vendor_id # PyNone THEN prod_vendor_id ELSE vendor_id

\* The device type for businfo.lower() and description.lower(), the conditions
\* evaluated in the code's order: description.lower() is reached only where businfo
\* does not decide.
device_type_of(b, d) ==
  IF IsRaise(b) THEN b
  ELSE IF Contains(b.s, "nvme") THEN PyStr("nvme")
  ELSE IF IsRaise(d) THEN d
  ELSE IF Contains(d.s, "nvme") THEN PyStr("nvme")
  ELSE IF Contains(b.s, "scsi") THEN PyStr("scsi")
  ELSE IF Contains(b.s, "virtio") THEN PyStr("virtio")
  ELSE IF Contains(b.s, "sata") \/ Contains(d.s, "ata") THEN PyStr("sata")
  ELSE PyStr("unknown")

\* The device type of _parse_storage_device.
storage_device_type(businfo, description) == device_type_of(PyLower(businfo), PyLower(description))

\* firmware, or configuration.firmware where the node has none.
storage_firmware(firmware, config) ==
  IF IsDict(config) /\ ~Truthy(firmware) THEN DictGet(config, "firmware", PyNone) ELSE firmware

_parse_storage_device(node) ==
  Try(MethodGet(node, "size", PyNone), LAMBDA size :
  IF ~Truthy(size) THEN PyNone
  ELSE Try(storage_device_type(DictGet(node, "businfo", PyStr("")),
                               DictGet(node, "description", PyStr(""))), LAMBDA device_type :
       Try(_parse_vendor_string(DictGet(node, "vendor", PyNone)), LAMBDA vendor :
       Try(_parse_product_string(DictGet(node, "product", PyNone)), LAMBDA product :
       Try(PyRoundDiv1(size, GiB), LAMBDA size_gb :
       PyDict(<< <<"type", device_type>>,
                 <<"description", DictGet(node, "description", PyStr(""))>>,
                 <<"vendor", vendor.v[1]>>,
                 <<"vendor_id", fill_vendor_id(vendor.v[2], product.v[2])>>,
                 <<"model", product.v[1]>>,
                 <<"device_id", product.v[3]>>,
                 <<"size_gb", size_gb>>,
                 <<"version", DictGet(node, "version", PyNone)>>,
                 <<"firmware", storage_firmware(DictGet(node, "firmware", PyNone),
                                                DictGet(node, "configuration", EmptyDict))>>,
                 <<"businfo", DictGet(node, "businfo", PyStr(""))>> >>))))))

\* What a loop over results leaves: the first exception, in the order of the
\* results, else Kept(results).
collect(results, Kept(_)) ==
  Let(First({i \in 1..Len(results) : IsRaise(results[i])}), LAMBDA failed :
      IF failed # 0 THEN results[failed] ELSE PyList(Kept(results)))

\* if info: devices.append(info)
Truthies(infos) == SelectSeq(infos, Truthy)

\* for node in nodes: info = ParseOne(node); if info: devices.append(info)
parse_each(nodes, ParseOne(_)) == collect([i \in 1..Len(nodes) |-> ParseOne(nodes[i])], Truthies)

RECURSIVE Flatten(_)
\* The concatenation of a sequence of lists.
Flatten(lists) == IF lists = <<>> THEN <<>> ELSE lists[1].l \o Flatten(Tail(lists))

\* A storage_child that takes volumes only.
storage_child_volume(child) ==
  Try(MethodGet(child, "class", PyNone), LAMBDA class :
  IF class = PyStr("volume") THEN _parse_storage_device(child) ELSE PyNone)

\* One child of a storage node: its device entry if it is a volume or a disk.
storage_child(child) ==
  Try(MethodGet(child, "class", PyNone), LAMBDA class :
  IF class = PyStr("volume") \/ class = PyStr("disk") THEN _parse_storage_device(child)
  ELSE PyNone)

\* The device entries of the children of one storage node.
attached_devices(storage) ==
  Try(PyIter(DictGet(storage, "children", PyList(<<>>))), LAMBDA children :
  parse_each(children.l, storage_child))

_extract_storage_devices(self) ==
  Try(_find_nodes_by_class(self.data, "disk"), LAMBDA disk_nodes :
  Try(_find_nodes_by_class(self.data, "storage"), LAMBDA storage_nodes :
  Try(parse_each(disk_nodes.l, _parse_storage_device), LAMBDA disks :
  Try(collect([i \in 1..Len(storage_nodes.l) |-> attached_devices(storage_nodes.l[i])], Flatten),
      LAMBDA volumes : PyList(disks.l \o volumes.l)))))

\* The digits of s from position i on.
digits_at(s, i) == TakeWhile(SubSeq(s, i, Len(s)), IsDigit)

\* What follows the digits at position i, the whitespace before it left out.
unit_after(s, i, digits) == LStrip(SubSeq(s, i + Len(digits), Len(s)))

\* Whether (\d+)\s*(Gbit|Mbit) matches at position i.
speed_hit(s, i, after) ==
  IsDigit(CharAt(s, i)) /\ (StartsWith(after, "Gbit") \/ StartsWith(after, "Mbit"))

\* value * 1000 if unit == "Gbit" else value
speed_of(digits, after) ==
  IF StartsWith(after, "Gbit") THEN 1000 * DigitsValue(digits, 0) ELSE DigitsValue(digits, 0)

\* re.search(r"(\d+)\s*(Gbit|Mbit)", s): the speed in Mbit/s, or -1 when nothing
\* matches. The leftmost match starts at the first digit whose run of digits, and
\* the whitespace after it, is followed by a unit.
speed_search(s) ==
  Let(First({i \in 1..Len(s) : speed_hit(s, i, unit_after(s, i, digits_at(s, i)))}), LAMBDA i :
      IF i = 0 THEN -1
      ELSE Let(digits_at(s, i), LAMBDA digits : speed_of(digits, unit_after(s, i, digits))))

\* Whether (\d+)gbit matches at position i, digits being the digits there.
gbit_hit(key, i, digits) ==
  IsDigit(CharAt(key, i)) /\ StartsWith(SubSeq(key, i + Len(digits), Len(key)), "gbit")

\* re.search(r"(\d+)gbit", key): the number, or -1 when nothing matches.
gbit_search(key) ==
  Let(First({i \in 1..Len(key) : gbit_hit(key, i, digits_at(key, i))}), LAMBDA i :
      IF i = 0 THEN -1 ELSE DigitsValue(digits_at(key, i), 0))

\* The first of the speeds, in order, that is one; None when there is none.
first_speed(speeds) ==
  Let(First({i \in 1..Len(speeds) : speeds[i] # -1}), LAMBDA i :
      IF i = 0 THEN PyNone ELSE PyInt(1000 * speeds[i]))

\* The speed the capability keys give: that of the first key, in the mapping's
\* order, that holds <digits>gbit; None when there is none.
capability_speed(capabilities) ==
  first_speed([i \in 1..Len(capabilities.d) |-> gbit_search(Lower(capabilities.d[i][1]))])

\* a or b
PyOr(a, b) == IF Truthy(a) THEN a ELSE b

\* v.replace("0x", "").upper() under "if v:", else None: AttributeError for a truthy
\* value that is no string.
hex_id(v) ==
  IF ~Truthy(v) THEN PyNone
  ELSE IF ~IsStr(v) THEN Raise("AttributeError")
  ELSE PyStr(Upper(Remove(v.s, "0x")))

\* The logical_name one network child leaves, and whether the loop goes on.
child_name(child, class, logical_name) ==
  IF class = PyStr("network") THEN DictGet(child, "logicalname", PyNone) ELSE logical_name

RECURSIVE child_logical_name(_, _)
\* The loop of _parse_network_interface over the children: logical_name is set from
\* each network child until one gives a name.
child_logical_name(children, logical_name) ==
  IF children = <<>> THEN logical_name
  ELSE Try(MethodGet(children[1], "class", PyNone), LAMBDA class :
       Let(child_name(children[1], class, logical_name), LAMBDA name :
       IF class = PyStr("network") /\ Truthy(name) THEN name
       ELSE child_logical_name(Tail(children), name)))

\* logical_name of a network node: its own, else that of its children.
logical_name_of(node, own_name) ==
  IF Truthy(own_name) THEN own_name
  ELSE Try(PyIter(DictGet(node, "children", PyList(<<>>))), LAMBDA children :
       child_logical_name(children.l, own_name))

\* The speed configuration.speed gives: TypeError for a truthy speed that is no
\* string.
config_speed(speed_str) ==
  IF ~Truthy(speed_str) THEN PyNone
  ELSE IF ~IsStr(speed_str) THEN Raise("TypeError")
  ELSE Let(speed_search(speed_str.s), LAMBDA mbps : IF mbps = -1 THEN PyNone ELSE PyInt(mbps))

\* The speed under "if not speed_mbps": that of the capability keys if they give one.
fallback_speed(capabilities, speed_mbps) ==
  IF ~IsDict(capabilities) THEN speed_mbps
  ELSE Let(capability_speed(capabilities), LAMBDA speed :
       IF speed # PyNone THEN speed ELSE speed_mbps)

\* The negotiated speed of _parse_network_interface: configuration.speed, else the
\* capability keys.
negotiated_speed(node, config) ==
  Try(config_speed(ConfigGet(config, "speed")), LAMBDA speed_mbps :
  IF Truthy(speed_mbps) THEN speed_mbps
  ELSE fallback_speed(DictGet(node, "capabilities", EmptyDict), speed_mbps))

\* A flag_of that never leaves a flag unset.
flag_of_set(raw, yes, no) ==
  IF raw = PyStr(yes) THEN PyBool(TRUE) ELSE PyBool(FALSE)

\* "yes"/"no" or "on"/"off" to True/False, anything else to None.
flag_of(raw, yes, no) ==
  IF raw = PyStr(yes) THEN PyBool(TRUE) ELSE IF raw = PyStr(no) THEN PyBool(FALSE) ELSE PyNone

\* A firmware_entry that adds the key whatever the field holds.
firmware_entry_always(firmware_parsed, field) ==
  << <<"firmware_" \o field, DictGet(firmware_parsed, field, PyNone)>> >>

\* The entry a field of a parsed firmware string adds to a network interface.
firmware_entry(firmware_parsed, field) ==
  IF Truthy(DictGet(firmware_parsed, field, PyNone))
  THEN << <<"firmware_" \o field, Item(firmware_parsed, field)>> >> ELSE <<>>

\* The entries a parsed firmware string adds to a network interface.
firmware_entries(firmware_parsed) ==
  firmware_entry(firmware_parsed, "bootcode") \o firmware_entry(firmware_parsed, "nvm")
  \o firmware_entry(firmware_parsed, "psid") \o firmware_entry(firmware_parsed, "ncsi")

\* config.get("sub<what>") or config.get("<what>"), as an id.
subsystem_id(config, what) ==
  hex_id(PyOr(ConfigGet(config, "sub" \o what), ConfigGet(config, what)))

_parse_network_interface(node) ==
  Let(DictGet(node, "configuration", EmptyDict), LAMBDA config :
  Try(_parse_vendor_string(DictGet(node, "vendor", PyNone)), LAMBDA vendor :
  Try(_parse_product_string(DictGet(node, "product", PyNone)), LAMBDA product :
  Try(logical_name_of(node, DictGet(node, "logicalname", PyNone)), LAMBDA logical_name :
  Try(negotiated_speed(node, config), LAMBDA speed_mbps :
  Try(subsystem_id(config, "vendor"), LAMBDA subvendor_id :
  Try(subsystem_id(config, "device"), LAMBDA subdevice_id :
  Try(_parse_firmware_string(ConfigGet(config, "firmware"), vendor.v[1]), LAMBDA firmware_parsed :
  Try(_is_virtual_function(DictGet(node, "businfo", PyStr(""))), LAMBDA is_vf :
  PyDict(<< <<"description", DictGet(node, "description", PyStr(""))>>,
            <<"vendor", vendor.v[1]>>,
            <<"vendor_id", fill_vendor_id(vendor.v[2], product.v[2])>>,
            <<"model", product.v[1]>>,
            <<"device_id", product.v[3]>>,
            <<"subvendor_id", subvendor_id>>,
            <<"subdevice_id", subdevice_id>>,
            <<"logical_name", logical_name>>,
            <<"link_status", flag_of(ConfigGet(config, "link"), "yes", "no")>>,
            <<"duplex", ConfigGet(config, "duplex")>>,
            <<"autonegotiation", flag_of(ConfigGet(config, "autonegotiation"), "on", "off")>>,
            <<"speed_mbps", speed_mbps>>,
            <<"driver", ConfigGet(config, "driver")>>,
            <<"driver_version", ConfigGet(config, "driverversion")>>,
            <<"firmware", ConfigGet(config, "firmware")>>,
            <<"firmware_version", DictGet(firmware_parsed, "primary", PyNone)>>,
            <<"is_virtual_function", is_vf>>,
            <<"businfo", DictGet(node, "businfo", PyStr(""))>> >>
         \o firmware_entries(firmware_parsed)))))))))))

\* An _extract_network_interfaces that keeps the first network node and its equals.
extract_first_network_interface(self) ==
  Try(_find_nodes_by_class(self.data, "network"), LAMBDA network_nodes :
  parse_each(SelectSeq(network_nodes.l, LAMBDA n : n = network_nodes.l[1]), _parse_network_interface))

_extract_network_interfaces(self) ==
  Try(_find_nodes_by_class(self.data, "network"), LAMBDA network_nodes :
  parse_each(network_nodes.l, _parse_network_interface))

accelerator_keywords ==
  {"accelerator", "processing accelerators", "fpga", "programmable logic",
   "3d controller", "gpu", "signal processing", "dsp"}

\* A category_of that asks for the storage class before the accelerator keywords.
category_of_storage_first(node_class, description) ==
  IF node_class \in {PyStr("processor"), PyStr("memory"), PyStr("disk"), PyStr("system")}
  THEN PyNone
  ELSE IF node_class = PyStr("network") THEN PyStr("network")
  ELSE IF node_class = PyStr("storage") THEN PyStr("storage")
  ELSE IF \E keyword \in accelerator_keywords : Contains(description, keyword)
  THEN PyStr("accelerator")
  ELSE IF Contains(description, "usb") /\ node_class = PyStr("bus") THEN PyStr("usb")
  ELSE PyStr("other")

\* The category for a node's class and lowercased description.
category_of(node_class, description) ==
  IF node_class \in {PyStr("processor"), PyStr("memory"), PyStr("disk"), PyStr("system")}
  THEN PyNone
  ELSE IF node_class = PyStr("network") THEN PyStr("network")
  ELSE IF \E keyword \in accelerator_keywords : Contains(description, keyword)
  THEN PyStr("accelerator")
  ELSE IF node_class = PyStr("storage") THEN PyStr("storage")
  ELSE IF Contains(description, "usb") /\ node_class = PyStr("bus") THEN PyStr("usb")
  ELSE PyStr("other")

_categorize_pci_device(node) ==
  Try(PyLower(DictGet(node, "description", PyStr(""))), LAMBDA description :
  category_of(DictGet(node, "class", PyStr("")), description.s))

_parse_pci_device(node) ==
  Let(DictGet(node, "configuration", EmptyDict), LAMBDA config :
  Try(_parse_vendor_string(DictGet(node, "vendor", PyNone)), LAMBDA vendor :
  Try(_parse_product_string(DictGet(node, "product", PyNone)), LAMBDA product :
  Try(subsystem_id(config, "vendor"), LAMBDA subvendor_id :
  Try(subsystem_id(config, "device"), LAMBDA subdevice_id :
  Try(_is_virtual_function(DictGet(node, "businfo", PyStr(""))), LAMBDA is_vf :
  PyDict(<< <<"description", DictGet(node, "description", PyStr(""))>>,
            <<"vendor", vendor.v[1]>>,
            <<"vendor_id", fill_vendor_id(vendor.v[2], product.v[2])>>,
            <<"model", product.v[1]>>,
            <<"device_id", product.v[3]>>,
            <<"subvendor_id", subvendor_id>>,
            <<"subdevice_id", subdevice_id>>,
            <<"is_virtual_function", is_vf>>,
            <<"businfo", DictGet(node, "businfo", PyStr(""))>>,
            <<"logical_name", DictGet(node, "logicalname", PyNone)>> >>)))))))

\* An entry of the result of _extract_pci_devices: a device info in its category.
pci_entry(category, device_info) == [category |-> category.s, info |-> device_info]

\* The entry _categorize_pci_recursive appends for one PCI node: its category and
\* device info, or nothing for a skipped node.
categorized(node) ==
  Try(_categorize_pci_device(node), LAMBDA category :
  IF ~Truthy(category) THEN PyList(<<>>)
  ELSE Try(_parse_pci_device(node), LAMBDA device_info :
       PyList(<<pci_entry(category, device_info)>>)))

RECURSIVE _categorize_pci_recursive(_)
RECURSIVE categorize_children(_)

\* The loop of _categorize_pci_recursive over the children.
categorize_children(children) ==
  IF children = <<>> THEN PyList(<<>>)
  ELSE Try(_categorize_pci_recursive(children[1]), LAMBDA first :
       Try(categorize_children(Tail(children)), LAMBDA others :
       PyList(first.l \o others.l)))

\* businfo.startswith("pci@"): AttributeError for a businfo that is no string.
is_pci(businfo) ==
  IF ~IsStr(businfo) THEN Raise("AttributeError") ELSE PyBool(StartsWith(businfo.s, "pci@"))

\* The entries appended for a node and the nodes below it, in the order appended.
_categorize_pci_recursive(node) ==
  IF ~IsDict(node) THEN PyList(<<>>)
  ELSE Try(is_pci(DictGet(node, "businfo", PyStr(""))), LAMBDA pci :
       Try(IF pci.b THEN categorized(node) ELSE PyList(<<>>), LAMBDA own :
       Try(PyIter(DictGet(node, "children", PyList(<<>>))), LAMBDA children :
       Try(categorize_children(children.l), LAMBDA below :
       PyList(own.l \o below.l)))))

\* The device infos of one category, in the order appended.
of_category(entries, category) ==
  Let(SelectSeq(entries, LAMBDA e : e.category = category), LAMBDA kept :
      PyList([i \in 1..Len(kept) |-> kept[i].info]))

\* The five lists of _extract_pci_devices, filled from the entries.
pci_lists(entries) ==
  PyDict(<< <<"storage", of_category(entries, "storage")>>,
            <<"network", of_category(entries, "network")>>,
            <<"usb", of_category(entries, "usb")>>,
            <<"accelerator", of_category(entries, "accelerator")>>,
            <<"other", of_category(entries, "other")>> >>)

_extract_pci_devices(self) ==
  Try(_categorize_pci_recursive(self.data), LAMBDA entries : pci_lists(entries.l))

\* HardwareInfo.__init__: the instance, or ValueError.
HardwareInfo_init(input_name, raw_data) ==
  Try(PyIn("hardware", raw_data), LAMBDA has :
  IF ~has.b THEN Raise("ValueError")
  ELSE Try(GetItem(raw_data, "hardware"), LAMBDA hw_wrapper :
       IF ~IsDict(hw_wrapper) THEN Raise("ValueError")
       ELSE [t |-> "HardwareInfo",
             node |-> DictGet(hw_wrapper, "node", PyStr("")),
             data |-> DictGet(hw_wrapper, "data", EmptyDict),
             input_name |-> input_name]))

\* HardwareInfo.parse: the flat profile, or the first exception of a sub-extraction.
parse(self) ==
  Try(_extract_system_info(self), LAMBDA system :
  Try(_extract_bios_info(self), LAMBDA bios :
  Try(_extract_cpu_info(self), LAMBDA cpu :
  Try(_extract_memory_info(self), LAMBDA memory :
  Try(_extract_storage_devices(self), LAMBDA storage_devices :
  Try(_extract_network_interfaces(self), LAMBDA network_interfaces :
  Try(_extract_pci_devices(self), LAMBDA pci_devices :
  PyDict(<< <<"node", self.node>> >> \o system.d \o bios.d \o cpu.d \o memory.d
         \o << <<"storage_devices", storage_devices>>,
               <<"network_interfaces", network_interfaces>>,
               <<"pci_storage_controllers", Item(pci_devices, "storage")>>,
               <<"pci_network_controllers", Item(pci_devices, "network")>>,
               <<"pci_usb_controllers", Item(pci_devices, "usb")>>,
               <<"pci_accelerators", Item(pci_devices, "accelerator")>>,
               <<"pci_other_devices", Item(pci_devices, "other")>> >>))))))))

\* except ValueError: return None; any other exception leaves normalize().
except_ValueError(result) == IF result = Raise("ValueError") THEN PyNone ELSE result

\* The value HardwareInfo(...).parse() leaves: that of parse(), or the exception of
\* the constructor.
construct_and_parse(normalizer) == IF IsRaise(normalizer) THEN normalizer ELSE parse(normalizer)

\* The module's normalize(input_name, input_data) of the Hardware Extractor.
hw_normalize(input_name, input_data) ==
  except_ValueError(construct_and_parse(HardwareInfo_init(input_name, input_data)))

(***************************************************************************)
(* Captures                                                                *)
(***************************************************************************)
\* The longest children list of a generated node.
MaxChildren == 2
\* The workers of a batch.
NumWorkers == 2

\* The sequences over S of length at most n.
SeqsUpTo(S, n) == UNION {[1..k -> S] : k \in 0..n}

\* An lshw node: id and class, then the other fields in order.
Node(id, class, fields) ==
  Obj(<< <<"id", PyStr(id)>>, <<"class", PyStr(class)>> >> \o fields)

\* A processor node with the given configuration.cores and configuration.threads.
Processor(cores, threads) ==
  Node("cpu", "processor",
       << <<"vendor", PyStr("Intel Corp.")>>, <<"product", PyStr("Xeon Gold 6338")>>,
          <<"size", PyInt(2000000000)>>,
          <<"configuration", Obj(<< <<"cores", cores>>, <<"threads", threads>> >>)>> >>)

ProcessorNodes ==
  { Processor(PyStr("32"), PyStr("64")), Processor(PyInt(32), PyInt(64)),
    Processor(PyStr("16"), Absent), Processor(Absent, PyInt(2)),
    Node("cpu", "processor", <<>>) }

\* A DIMM below a memory node.
Bank(size) ==
  Node("bank", "memory", << <<"description", PyStr("DIMM DDR4")>>, <<"size", size>> >>)

MemoryNodes ==
  { Node("memory:0", "memory", << <<"description", PyStr("System Memory")>>,
                                  <<"size", PyInt(256 * GiB)>>,
                                  <<"children", PyList(<<Bank(PyInt(128 * GiB)), Bank(PyInt(128 * GiB))>>)>> >>),
    Node("memory:1", "memory", << <<"description", PyStr("System Memory")>>,
                                  <<"size", PyInt(256 * GiB)>>,
                                  <<"children", PyList(<<Bank(PyInt(128 * GiB)), Bank(PyInt(128 * GiB))>>)>> >>),
    Node("memory", "memory", << <<"description", PyStr("Main RAM")>>, <<"size", PyInt(GiB \div 4)>>,
                                <<"children", PyList(<<Bank(PyInt(GiB \div 4)), Bank(PyNone), Bank(PyInt(0))>>)>> >>),
    Node("memory:2", "memory", << <<"description", PyStr("RAM controller")>>, <<"size", PyInt(4 * GiB)>>,
                                  <<"children", PyList(<<Node("riser", "bus",
                                       << <<"children", PyList(<<Bank(PyInt(GiB))>>)>> >>)>>)>> >>),
    Node("cache:0", "memory", << <<"description", PyStr("L1 cache")>>, <<"size", PyInt(1)>> >>),
    Node("firmware", "memory", << <<"description", PyStr("BIOS")>>, <<"vendor", PyStr("Dell Inc.")>>,
                                  <<"version", PyFloat(2500)>>, <<"date", PyStr("01/01/2020")>>,
                                  <<"size", PyInt(1)>>,
                                  <<"capabilities", Obj(<< <<"uefi", PyStr("UEFI specification is supported")>> >>)>> >>) }

StorageNodes ==
  { Node("disk", "disk", << <<"businfo", PyStr("scsi@0:0.0.0")>>, <<"description", PyStr("ATA Disk")>>,
                            <<"vendor", PyStr("Seagate")>>, <<"product", PyStr("ST1000NM0008")>>,
                            <<"size", PyInt(1000 * GiB)>>, <<"version", PyInt(12)>>,
                            <<"logicalname", PyStr("/dev/sda")>>,
                            <<"configuration", Obj(<< <<"firmware", PyStr("SN03")>>,
                                                     <<"logicalsectorsize", PyStr("512")>> >>)>> >>),
    Node("nvme", "storage", << <<"businfo", PyStr("pci@0000:01:00.0")>>,
                               <<"description", PyStr("Non-Volatile memory controller")>>,
                               <<"vendor", PyStr("Samsung [144D]")>>,
                               <<"children", PyList(<<Node("namespace", "disk",
                                                           << <<"businfo", PyStr("nvme@0:1")>>,
                                                              <<"size", PyInt(1536)>> >>)>>)>> >>),
    Node("cdrom", "disk", << <<"description", PyStr("DVD reader")>>, <<"physid", PyInt(1)>> >>),
    Node("sata", "storage", << <<"businfo", PyStr("pci@0000:00:17.0")>>,
                               <<"description", PyStr("SATA controller")>>,
                               <<"children", PyList(<<Node("volume", "volume",
                                                           << <<"description", PyStr("EXT4 volume")>>,
                                                              <<"size", PyInt(2048)>> >>)>>)>> >>) }

\* A network interface with the given configuration values and logicalname.
Interface(product, logicalname, link, autonegotiation, speed) ==
  Node("network", "network",
       << <<"businfo", PyStr("pci@0000:3b:00.0")>>, <<"description", PyStr("Ethernet interface")>>,
          <<"vendor", PyStr("Intel Corporation [8086]")>>, <<"product", PyStr(product)>>,
          <<"logicalname", logicalname>>, <<"serial", PyStr("aa:bb:cc:dd:ee:ff")>>,
          <<"configuration", Obj(<< <<"driver", PyStr("i40e")>>,
                                   <<"firmware", PyStr("6.01 0x800035b1 1.1747.0")>>,
                                   <<"link", link>>, <<"autonegotiation", autonegotiation>>,
                                   <<"speed", speed>> >>)>>,
          <<"capabilities", Obj(<< <<"ethernet", PyBool(TRUE)>>,
                                  <<"10000bt-fd", PyStr("10Gbit/s (full duplex)")>> >>)>> >>)

NetworkNodes ==
  { Interface("Ethernet Controller X710 [8086:1572]", PyStr("eth0"), PyStr("yes"), PyStr("on"), PyStr("10Gbit/s")),
    Interface("Ethernet Controller X710 [8086:1572]", PyList(<<PyStr("eth1")>>), PyBool(FALSE), PyBool(FALSE), Absent),
    Interface("Ethernet Virtual Function 700 Series", Absent, PyStr("no"), PyStr("off"), Absent),
    Interface("I350 Gigabit Network Connection", Absent, Absent, Absent, PyStr("1Gbit/s")) }

PciNodes ==
  { Node("usb", "bus", << <<"businfo", PyStr("pci@0000:00:14.0")>>, <<"description", PyStr("USB controller")>>,
                          <<"vendor", PyStr("Intel Corporation")>>,
                          <<"configuration", Obj(<< <<"driver", PyStr("xhci_hcd")>>,
                                                   <<"latency", PyStr("0")>> >>)>> >>),
    Node("display", "display", << <<"businfo", PyStr("pci@0000:03:00.0")>>,
                                  <<"description", PyStr("VGA compatible controller")>>,
                                  <<"claimed", PyStr("true")>>, <<"width", PyStr("32")>> >>),
    Node("pci", "bridge", << <<"businfo", PyStr("pci@0000:00:1c.0")>>, <<"description", PyStr("PCI bridge")>>,
                             <<"children", PyList(<<Node("raid", "storage",
                                                         << <<"businfo", PyStr("pci@0000:18:00.0")>>,
                                                            <<"description", PyStr("RAID bus controller")>> >>)>>)>> >>),
    Node("generic", "generic", << <<"businfo", PyStr("pci@0000:00:1f.2")>>,
                                  <<"description", PyStr("Memory controller")>> >>),
    Node("generic:1", "generic", << <<"businfo", PyStr("pci@0000:3b:00.0")>>,
                                    <<"description", PyStr("Processing accelerators")>>,
                                    <<"product", PyStr("Device [8086:0D5C]")>> >>),
    Node("nvme", "storage", << <<"businfo", PyStr("pci@0000:5e:00.0")>>,
                               <<"description", PyStr("FPGA storage controller")>> >>),
    Node("dsp", "processor", << <<"businfo", PyStr("pci@0000:5f:00.0")>>,
                                <<"description", PyStr("Signal processing controller")>> >>),
    Node("network:9", "network", << <<"businfo", PyStr("pci@0000:af:01.2")>>,
                                    <<"description", PyStr("Ethernet accelerator")>> >>),
    Node("serial", "communication",
         << <<"businfo", PyStr("pci@0000:00:16.3")>>, <<"description", PyStr("Serial controller")>>,
            <<"children", PyList(<<Node("usbhub", "bus", << <<"businfo", PyStr("usb@1:1")>>,
                                                           <<"description", PyStr("USB hub")>> >>)>>)>> >>) }

\* Nodes and children entries as partial or damaged captures hold them.
MalformedNodes ==
  { PyStr("truncated"), PyNone,
    Node("core", "bus", << <<"children", PyNone>> >>),
    Node("core", "bus", << <<"businfo", PyNone>> >>),
    Node("memory:0", "memory", << <<"description", PyNone>>, <<"size", PyInt(GiB)>> >>),
    Node("memory", "memory", << <<"size", PyStr("unknown")>> >>),
    Node("memory", "memory", << <<"children", PyList(<<PyStr("bank")>>)>> >>),
    Processor(PyStr("abc"), PyStr("64")),
    Processor(PyStr("1.5"), Absent),
    Node("cpu", "processor", << <<"size", PyStr("2000000000")>>, <<"configuration", PyNone>> >>),
    Node("network", "network", << <<"configuration", PyNone>>, <<"capabilities", PyList(<<>>)>> >>),
    Node("disk", "disk", << <<"size", PyInt(GiB)>>, <<"description", PyNone>> >>) }

\* The pools a generated children list is drawn from: one pool per list.
NodePools == {ProcessorNodes, MemoryNodes, StorageNodes, NetworkNodes, PciNodes, MalformedNodes}

ChildrenLists == UNION {SeqsUpTo(pool, MaxChildren) : pool \in NodePools}

\* The root node of a capture: the system, its children directly below it or
\* below its motherboard node.
SystemNode(children, nested) ==
  Node("host", "system",
       << <<"product", PyStr("PowerEdge R640 (SKU=NotProvided;ModelName=PowerEdge R640)")>>,
          <<"vendor", PyStr("Dell Inc.")>>,
          <<"children", IF nested
                        THEN PyList(<<Node("core", "bus", << <<"description", PyStr("Motherboard")>>,
                                                            <<"physid", PyInt(0)>>,
                                                            <<"children", PyList(children)>> >>)>>)
                        ELSE PyList(children)>> >>)

\* The capture wrapper {"hardware": {"node", "data", "error"}}.
Wrapper(node, data, error) ==
  Obj(<< <<"hardware", Obj(<< <<"node", node>>, <<"data", data>>, <<"error", error>> >>)>> >>)

TreeCaptures ==
  {Wrapper(PyStr("node-1"), SystemNode(children, nested), Absent) :
     children \in ChildrenLists, nested \in BOOLEAN}

\* Captures that differ in the wrapper: what is not a capture at all, wrappers
\* without data, data without id or class, and the optional node and error.
WrapperCaptures ==
  { PyNone, PyInt(3), PyStr("hardware"), PyStr("lshw"), PyList(<<PyStr("hardware")>>), EmptyDict,
    Obj(<< <<"hardware", PyNone>> >>), Obj(<< <<"hardware", PyList(<<>>)>> >>),
    Obj(<< <<"hardware", PyStr("data")>> >>), Obj(<< <<"hardware", EmptyDict>> >>),
    Obj(<< <<"lshw", Node("host", "system", <<>>)>> >>),
    Wrapper(PyStr("node-1"), Absent, PyStr("lshw not found")) }
  \cup {Wrapper(PyStr("node-1"), data, Absent) :
          data \in {PyNone, PyList(<<>>), PyStr("id class"), EmptyDict,
                    Obj(<< <<"id", PyStr("host")>> >>), Obj(<< <<"class", PyStr("system")>> >>)}}
  \cup {Wrapper(node, Node("host", "system", <<>>), error) :
          node \in {Absent, PyNone, PyStr("node-1")},
          error \in {Absent, PyNone, PyStr(""), PyStr("timeout")}}

Captures == TreeCaptures \cup WrapperCaptures

\* The documents of a batch.
BatchCaptures ==
  { Wrapper(PyStr("node-1"), SystemNode(<<Processor(PyStr("32"), PyStr("64")), Processor(PyInt(32), PyInt(64))>>, TRUE), Absent),
    Wrapper(PyStr("node-2"), SystemNode(<<Bank(PyInt(GiB))>>, FALSE), PyStr("")),
    Wrapper(PyStr("node-3"), SystemNode(<<PyNone>>, FALSE), Absent),
    Obj(<< <<"hardware", PyNone>> >>) }

(***************************************************************************)
(* The pipeline: each worker takes one document through the Type           *)
(* Normalizer (when its source is "normalized") and the Hardware Extractor.*)
(***************************************************************************)
\* Not computed yet.
Pending == [t |-> "pending"]

Workers == DOMAIN doc

\* The input_name a worker passes for its document.
NameOf(w) == "doc-" \o IntToStr(w)

\* A call of one function of the two modules on its own, as the unit tests make
\* it: the function's name and its arguments; NoCall where documents are processed.
Call(fn, args) == [fn |-> fn, args |-> args]
NoCall == Call("none", <<>>)

\* One object shared by all calls.
SharedInstance(w) == 1

\* The object a worker's call of normalize() constructs: one per call.
InstanceOf(w) == w

\* What the worker hands to the Hardware Extractor.
InputOf(w) == IF src[w] = "raw" THEN doc[w] ELSE norm[w]

TypeOK ==
  /\ pc \in [Workers -> {"start", "typed", "constructed", "done"}]
  /\ src \in [Workers -> {"raw", "normalized"}]
  /\ DOMAIN norm = Workers /\ DOMAIN inst = Workers /\ DOMAIN profile = Workers
  /\ call.fn = "none" \/ Workers = {}
  /\ call.fn = "none" => outcome = Pending

Start(W, documents) ==
  /\ doc \in [W -> documents]
  /\ src \in [W -> {"raw", "normalized"}]
  /\ pc = [w \in W |-> "start"]
  /\ norm = [w \in W |-> Pending]
  /\ inst = [w \in W |-> Pending]
  /\ profile = [w \in W |-> Pending]
  /\ call = NoCall
  /\ outcome = Pending
  /\ NoTask

\* One document at a time, over all generated captures.
Init == Start({1}, Captures)

\* A batch of documents, one per worker.
InitBatch == Start(1..NumWorkers, BatchCaptures)

\* A TypeNormalize that writes the normalized capture over the caller's.
TypeNormalizeInPlace(w) ==
  /\ pc[w] = "start" /\ src[w] = "normalized"
  /\ norm' = [norm EXCEPT ![w] = lshw_normalize(NameOf(w), doc[w])]
  /\ doc' = [doc EXCEPT ![w] = IF norm'[w] = EmptyDict THEN doc[w] ELSE norm'[w]]
  /\ pc' = [pc EXCEPT ![w] = "typed"]
  /\ UNCHANGED <<src, inst, profile, call, outcome>>
  /\ UNCHANGED tasks

\* normalization_jobs_extra.normalize(input_name, input_data)
TypeNormalize(w) ==
  /\ pc[w] = "start" /\ src[w] = "normalized"
  /\ norm' = [norm EXCEPT ![w] = lshw_normalize(NameOf(w), doc[w])]
  /\ pc' = [pc EXCEPT ![w] = "typed"]
  /\ UNCHANGED <<doc, src, inst, profile, call, outcome>>
  /\ UNCHANGED tasks

\* normalization_jobs_extra_hardware.normalize, up to the constructed HardwareInfo;
\* a ValueError of the constructor ends the call with None, any other exception
\* leaves the call.
Construct(w) ==
  /\ \/ pc[w] = "start" /\ src[w] = "raw"
     \/ pc[w] = "typed"
  /\ LET normalizer == HardwareInfo_init(NameOf(w), InputOf(w)) IN
     IF IsRaise(normalizer)
     THEN /\ profile' = [profile EXCEPT ![w] = except_ValueError(normalizer)]
          /\ pc' = [pc EXCEPT ![w] = "done"]
          /\ UNCHANGED inst
     ELSE /\ inst' = [inst EXCEPT ![InstanceOf(w)] = normalizer]
          /\ pc' = [pc EXCEPT ![w] = "constructed"]
          /\ UNCHANGED profile
  /\ UNCHANGED <<doc, src, norm, call, outcome>>
  /\ UNCHANGED tasks

\* return normalizer.parse(), under the same except ValueError.
Parse(w) ==
  /\ pc[w] = "constructed"
  /\ profile' = [profile EXCEPT ![w] = except_ValueError(parse(inst[InstanceOf(w)]))]
  /\ pc' = [pc EXCEPT ![w] = "done"]
  /\ UNCHANGED <<doc, src, norm, inst, call, outcome>>
  /\ UNCHANGED tasks

Next == \E w \in Workers : TypeNormalize(w) \/ Construct(w) \/ Parse(w)

Spec == Init /\ [][Next]_vars

SpecBatch == InitBatch /\ [][Next]_vars

\* ---------------------------------------------------------------------------
\* Properties of the Type Normalizer
\* ---------------------------------------------------------------------------

\* The workers whose capture went through the Type Normalizer.
Typed == {w \in Workers : norm[w] # Pending}

\* The workers whose call of the extractor has ended.
Ended == {w \in Workers : pc[w] = "done"}

\* A capture is valid when it is a mapping whose "hardware" is a mapping whose
\* "data" is a mapping that holds both "id" and "class".
ValidCapture(c) ==
  /\ IsDict(c)
  /\ HasKey(c, "hardware")
  /\ IsDict(Item(c, "hardware"))
  /\ HasKey(Item(c, "hardware"), "data")
  /\ IsDict(Item(Item(c, "hardware"), "data"))
  /\ {"id", "class"} \subseteq Keys(Item(Item(c, "hardware"), "data"))

\* C1: normalizing the output of the Type Normalizer again, under the same
\* name, gives that output back, for valid and invalid captures alike, wrapper
\* fields and the empty mapping included.
C1_Idempotent ==
  \A w \in Typed : lshw_normalize(NameOf(w), norm[w]) = norm[w]

\* A valid capture that the Type Normalizer changed.
C1_Witness ==
  \E w \in Typed : /\ ValidCapture(doc[w])
                   /\ norm[w] # EmptyDict
                   /\ norm[w] # doc[w]

\* C2: the Type Normalizer never raises, whatever it is given; it ends in the
\* wrapper mapping or in the empty mapping.
C2_NeverRaises ==
  \A w \in Typed :
    /\ ~IsRaise(norm[w])
    /\ \/ norm[w] = EmptyDict
       \/ IsDict(norm[w]) /\ Keys(norm[w]) = {"hardware"}

\* A capture that is not a mapping ended in the empty mapping.
C2_Witness ==
  \E w \in Typed : ~IsDict(doc[w]) /\ norm[w] = EmptyDict

\* C3: an invalid capture gives the empty mapping; a valid one gives a mapping
\* with the single key "hardware" holding exactly node (copied), data (the
\* normalized data sub-tree) and error (copied, "" when absent).
C3_WrapperShape ==
  \A w \in Typed :
    IF ValidCapture(doc[w])
    THEN /\ IsDict(norm[w])
         /\ Len(norm[w].d) = 1
         /\ Keys(norm[w]) = {"hardware"}
         /\ IsDict(Item(norm[w], "hardware"))
         /\ Len(Item(norm[w], "hardware").d) = 3
         /\ Keys(Item(norm[w], "hardware")) = {"node", "data", "error"}
         /\ Item(Item(norm[w], "hardware"), "node")
              = DictGet(Item(doc[w], "hardware"), "node", PyNone)
         /\ Item(Item(norm[w], "hardware"), "data")
              = normalize_node(Item(Item(doc[w], "hardware"), "data"))
         /\ Item(Item(norm[w], "hardware"), "error")
              = DictGet(Item(doc[w], "hardware"), "error", PyStr(""))
    ELSE norm[w] = EmptyDict

\* A valid capture without "error" got the wrapper with error "".
C3_Witness ==
  \E w \in Typed : /\ ValidCapture(doc[w])
                   /\ ~HasKey(Item(doc[w], "hardware"), "error")
                   /\ norm[w] # EmptyDict
                   /\ Item(Item(norm[w], "hardware"), "error") = PyStr("")

\* A mapping whose data lacks "class" ended in the empty mapping.
C3_WitnessInvalid ==
  \E w \in Typed : /\ IsDict(doc[w]) /\ ~ValidCapture(doc[w])
                   /\ HasKey(doc[w], "hardware")
                   /\ norm[w] = EmptyDict

\* ---------------------------------------------------------------------------
\* Properties of the Hardware Extractor
\* ---------------------------------------------------------------------------

\* The workers whose HardwareInfo was constructed and whose parse() has ended.
Parsed == {w \in Ended : inst[InstanceOf(w)] # Pending}

\* The workers whose parse() returned a profile.
Returned == {w \in Parsed : IsDict(profile[w])}

\* The lshw tree the extractor of worker w was given.
DataOf(w) == DictGet(Item(InputOf(w), "hardware"), "data", EmptyDict)

\* The nodes of a tree, the root first, every child list in its order.
RECURSIVE NodesBelow(_), NodesAmong(_)
NodesBelow(node) ==
  IF ~IsDict(node) THEN <<>>
  ELSE <<node>> \o NodesAmong(IF IsList(DictGet(node, "children", PyNone))
                              THEN Item(node, "children").l ELSE <<>>)

NodesAmong(children) ==
  IF children = <<>> THEN <<>>
  ELSE NodesBelow(Head(children)) \o NodesAmong(Tail(children))

NodesOfClass(data, class) ==
  SelectSeq(NodesBelow(data), LAMBDA n : DictGet(n, "class", PyNone) = PyStr(class))

RECURSIVE SumSeq(_)
SumSeq(q) == IF q = <<>> THEN 0 ELSE Head(q) + SumSeq(Tail(q))

\* C4: once a HardwareInfo is constructed, parse() returns a profile, whatever
\* the capture looks like below "hardware".
C4_ParseNeverRaises ==
  \A w \in Parsed : IsDict(profile[w])

\* C5: for a capture that is a mapping, the call of the extractor ends with
\* None exactly when "hardware" is absent or not a mapping, and no exception
\* leaves it.
C5_OnlyValueError ==
  \A w \in Ended :
    IsDict(InputOf(w)) =>
      /\ ~IsRaise(profile[w])
      /\ profile[w] = PyNone
           <=> ~(HasKey(InputOf(w), "hardware") /\ IsDict(Item(InputOf(w), "hardware")))

ProfileKeys ==
  << "node", "system_vendor", "system_model", "system_sku", "system_family",
     "bios_vendor", "bios_version", "bios_date", "bios_type",
     "cpu_vendor", "cpu_model", "cpu_sockets", "cpu_total_cores",
     "cpu_total_threads", "cpu_frequency_mhz",
     "memory_total_gb", "memory_dimm_count",
     "storage_devices", "network_interfaces",
     "pci_storage_controllers", "pci_network_controllers", "pci_usb_controllers",
     "pci_accelerators", "pci_other_devices" >>

AllAre(p, keys, value) == \A k \in keys : Item(p, k) = value

HasPciNode(data) ==
  \E i \in DOMAIN NodesBelow(data) :
    /\ IsStr(DictGet(NodesBelow(data)[i], "businfo", PyNone))
    /\ StartsWith(Item(NodesBelow(data)[i], "businfo").s, "pci@")

\* C6: a returned profile has exactly the 24 keys, and every field whose
\* source is missing holds its default (None, 0, 0.0 or []), whatever the
\* other categories hold.
C6_ProfileShape ==
  \A w \in Returned :
    /\ Keys(profile[w]) = {ProfileKeys[i] : i \in 1..24}
    /\ Len(profile[w].d) = 24
    /\ ~HasKey(DataOf(w), "vendor") => Item(profile[w], "system_vendor") = PyNone
    /\ ~HasKey(DataOf(w), "product")
         => AllAre(profile[w], {"system_model", "system_sku"}, PyNone)
    /\ ~HasKey(DataOf(w), "configuration") => Item(profile[w], "system_family") = PyNone
    /\ NodesOfClass(DataOf(w), "memory") = <<>>
         => /\ AllAre(profile[w], {"bios_vendor", "bios_version", "bios_date", "bios_type"}, PyNone)
            /\ Item(profile[w], "memory_total_gb") = PyFloat(0)
            /\ Item(profile[w], "memory_dimm_count") = PyInt(0)
    /\ NodesOfClass(DataOf(w), "processor") = <<>>
         => /\ AllAre(profile[w], {"cpu_vendor", "cpu_model", "cpu_frequency_mhz"}, PyNone)
            /\ AllAre(profile[w], {"cpu_sockets", "cpu_total_cores", "cpu_total_threads"}, PyInt(0))
    /\ NodesOfClass(DataOf(w), "disk") \o NodesOfClass(DataOf(w), "storage") = <<>>
         => Item(profile[w], "storage_devices") = PyList(<<>>)
    /\ NodesOfClass(DataOf(w), "network") = <<>>
         => Item(profile[w], "network_interfaces") = PyList(<<>>)
    /\ ~HasPciNode(DataOf(w))
         => AllAre(profile[w], {"pci_storage_controllers", "pci_network_controllers",
                                "pci_usb_controllers", "pci_accelerators",
                                "pci_other_devices"}, PyList(<<>>))

\* A profile with the processor defaults next to extracted network interfaces.
C6_Witness ==
  \E w \in Returned :
    /\ Item(profile[w], "cpu_sockets") = PyInt(0)
    /\ Item(profile[w], "cpu_vendor") = PyNone
    /\ Item(profile[w], "memory_total_gb") = PyFloat(0)
    /\ Item(profile[w], "network_interfaces") # PyList(<<>>)

\* What one document gives when it is processed alone.
AloneNormalized(w) == lshw_normalize(NameOf(w), doc[w])

AloneProfile(w) ==
  hw_normalize(NameOf(w), IF src[w] = "raw" THEN doc[w] ELSE AloneNormalized(w))

\* C7: however the calls for several documents interleave, each document's
\* normalized output and profile are those it gives when processed alone.
C7_Isolation ==
  /\ \A w \in Typed : norm[w] = AloneNormalized(w)
  /\ \A w \in Ended : profile[w] = AloneProfile(w)

\* Two different documents were both extracted to a profile.
C7_Witness ==
  \E v, w \in Returned : doc[v] # doc[w] /\ profile[v] # profile[w]

\* == of Python: numbers by value, lists by position, mappings by key.
RECURSIVE PyEq(_, _)
PyEq(a, b) ==
  IF a.t \in {"int", "bool"} /\ b.t \in {"int", "bool"} THEN IntOf(a) = IntOf(b)
  ELSE IF a.t \in {"int", "bool"} /\ b.t = "float"
    THEN Abs(IntOf(a)) < 1000000 /\ 1000 * IntOf(a) = b.milli
  ELSE IF a.t = "float" /\ b.t \in {"int", "bool"}
    THEN Abs(IntOf(b)) < 1000000 /\ 1000 * IntOf(b) = a.milli
  ELSE IF IsList(a) /\ IsList(b)
    THEN Len(a.l) = Len(b.l) /\ \A i \in 1..Len(a.l) : PyEq(a.l[i], b.l[i])
  ELSE IF IsDict(a) /\ IsDict(b)
    THEN Keys(a) = Keys(b) /\ \A k \in Keys(a) : PyEq(Item(a, k), Item(b, k))
  ELSE a = b

\* The profile of the same capture on the other path: through the Type
\* Normalizer when worker w took the raw capture, raw when it took the
\* normalized one.
OtherPathProfile(w) ==
  hw_normalize(NameOf(w), IF src[w] = "raw" THEN AloneNormalized(w) ELSE doc[w])

\* C8: for a valid capture, the profile extracted from the normalized capture
\* equals the profile extracted from the raw capture, in every field.
C8_SameProfile ==
  \A w \in Ended : ValidCapture(doc[w]) => PyEq(profile[w], OtherPathProfile(w))

\* The same, for the captures both paths extract a profile from.
C8_SameProfileWhenBothReturn ==
  \A w \in Returned :
    ValidCapture(doc[w]) /\ IsDict(OtherPathProfile(w))
      => PyEq(profile[w], OtherPathProfile(w))

CountsOf(data, field) ==
  [i \in DOMAIN NodesOfClass(data, "processor") |->
     LET config == DictGet(NodesOfClass(data, "processor")[i], "configuration", EmptyDict)
         v == IF IsDict(config) THEN DictGet(config, field, PyNone) ELSE PyNone
     IN IF v = PyNone THEN 0
        ELSE IF IsStr(v) THEN 1000 * IntValue(v.s)
        ELSE Milli(v)]

\* C9: cpu_sockets is the number of processor nodes anywhere in the tree;
\* cpu_total_cores and cpu_total_threads are the sums of configuration.cores
\* and configuration.threads over all of them, a value being a decimal string
\* or a number and a missing value or configuration counting as 0.
C9_CpuTotals ==
  \A w \in Returned :
    /\ Item(profile[w], "cpu_sockets") = PyInt(Len(NodesOfClass(DataOf(w), "processor")))
    /\ Milli(Item(profile[w], "cpu_total_cores")) = SumSeq(CountsOf(DataOf(w), "cores"))
    /\ Milli(Item(profile[w], "cpu_total_threads")) = SumSeq(CountsOf(DataOf(w), "threads"))

\* Two processors with cores "32" and threads "64" as strings gave 64 and 128.
C9_Witness ==
  \E w \in Returned :
    /\ src[w] = "raw"
    /\ NodesOfClass(DataOf(w), "processor")
         = <<Processor(PyStr("32"), PyStr("64")), Processor(PyStr("32"), PyStr("64"))>>
    /\ Item(profile[w], "cpu_sockets") = PyInt(2)
    /\ Item(profile[w], "cpu_total_cores") = PyInt(64)
    /\ Item(profile[w], "cpu_total_threads") = PyInt(128)

\* The memory nodes whose size counts: id "memory" or "memory:<n>", and
\* description with "System Memory" or id exactly "memory".
IsSystemMemory(n) ==
  /\ DictGet(n, "class", PyNone) = PyStr("memory")
  /\ IsStr(DictGet(n, "id", PyNone))
  /\ \/ Item(n, "id") = PyStr("memory")
     \/ /\ StartsWith(Item(n, "id").s, "memory:")
        /\ IsStr(DictGet(n, "description", PyNone))
        /\ Contains(Item(n, "description").s, "System Memory")

SystemMemorySizes(data) ==
  [i \in DOMAIN SelectSeq(NodesBelow(data), IsSystemMemory) |->
     LET size == DictGet(SelectSeq(NodesBelow(data), IsSystemMemory)[i], "size", PyNone)
     IN IF size = PyNone THEN 0 ELSE IntOf(size)]

\* C10: memory_total_gb is the sum of size over the system memory nodes, in
\* GiB to one decimal; no other memory node adds to it, and it is 0.0 when no
\* node qualifies.
C10_MemoryTotal ==
  \A w \in Returned :
    /\ Item(profile[w], "memory_total_gb").t = "float"
    /\ Item(profile[w], "memory_total_gb").milli % 100 = 0
    /\ Abs(Item(profile[w], "memory_total_gb").milli * GiB
             - 1000 * SumSeq(SystemMemorySizes(DataOf(w)))) <= 51200
    /\ SelectSeq(NodesBelow(DataOf(w)), IsSystemMemory) = <<>>
         => Item(profile[w], "memory_total_gb") = PyFloat(0)

\* memory:0 and memory:1 of 256 GiB each gave 512.0.
C10_Witness ==
  \E w \in Returned :
    /\ SystemMemorySizes(DataOf(w)) = <<256 * GiB, 256 * GiB>>
    /\ Item(profile[w], "memory_total_gb") = PyFloat(512000)

\* A RAM controller of class memory next to no system memory gave 0.0.
C10_WitnessExcluded ==
  \E w \in Returned :
    /\ NodesOfClass(DataOf(w), "memory") # <<>>
    /\ SelectSeq(NodesBelow(DataOf(w)), IsSystemMemory) = <<>>
    /\ Item(profile[w], "memory_total_gb") = PyFloat(0)

\* The children of a node that count as DIMMs when Sized holds of their size.
DimmsOf(n, Sized(_)) ==
  SelectSeq(IF IsList(DictGet(n, "children", PyNone)) THEN Item(n, "children").l ELSE <<>>,
            LAMBDA c : /\ IsDict(c)
                       /\ DictGet(c, "class", PyNone) = PyStr("memory")
                       /\ Sized(DictGet(c, "size", PyNone)))

\* The number of (memory node, direct child) pairs of a tree whose child is a DIMM.
DimmPairs(data, Sized(_)) ==
  SumSeq([i \in DOMAIN NodesOfClass(data, "memory") |->
            Len(DimmsOf(NodesOfClass(data, "memory")[i], Sized))])

\* C11: memory_dimm_count is the number of pairs of a memory node and a direct
\* child of it whose class is "memory" and whose size is not null; children of
\* other nodes and grandchildren do not count through that parent.
C11_DimmCount ==
  \A w \in Returned :
    Item(profile[w], "memory_dimm_count")
      = PyInt(DimmPairs(DataOf(w), LAMBDA size : size # PyNone))

\* The same count over the children whose size is truthy: a size of 0 is left out.
C11_DimmCountTruthy ==
  \A w \in Returned :
    Item(profile[w], "memory_dimm_count") = PyInt(DimmPairs(DataOf(w), Truthy))

\* memory:0 and memory:1 with two DIMMs each gave 4.
C11_Witness ==
  \E w \in Returned :
    /\ Len(NodesOfClass(DataOf(w), "memory")) = 6
    /\ Item(profile[w], "memory_dimm_count") = PyInt(4)

\* Whether a node's bus address begins with "pci@".
OnPci(n) ==
  IsStr(DictGet(n, "businfo", PyNone)) /\ StartsWith(Item(n, "businfo").s, "pci@")

AcceleratorWords ==
  {"accelerator", "fpga", "programmable logic", "3d controller", "gpu",
   "signal processing", "dsp", "processing accelerators"}

\* The list a PCI node belongs in, by the first rule that matches; "" for a
\* skipped node.
PciListOf(class, description) ==
  IF class \in {"processor", "memory", "disk", "system"} THEN ""
  ELSE IF class = "network" THEN "pci_network_controllers"
  ELSE IF \E word \in AcceleratorWords : Contains(Lower(description), word)
    THEN "pci_accelerators"
  ELSE IF class = "storage" THEN "pci_storage_controllers"
  ELSE IF Contains(Lower(description), "usb") /\ class = "bus" THEN "pci_usb_controllers"
  ELSE "pci_other_devices"

StrField(n, key) == IF IsStr(DictGet(n, key, PyNone)) THEN Item(n, key).s ELSE ""

\* The PCI nodes of a tree that belong in one list, in tree order.
PciNodesFor(data, list) ==
  SelectSeq(NodesBelow(data),
            LAMBDA n : OnPci(n) /\ PciListOf(StrField(n, "class"), StrField(n, "description")) = list)

PciLists ==
  {"pci_storage_controllers", "pci_network_controllers", "pci_usb_controllers",
   "pci_accelerators", "pci_other_devices"}

\* C12: every node whose businfo begins with "pci@" is skipped or is in exactly
\* one of the five lists, the one of the first rule that matches; every other
\* node is in none.
C12_PciCategories ==
  \A w \in Returned : \A list \in PciLists :
    Item(profile[w], list)
      = PyList([i \in DOMAIN PciNodesFor(DataOf(w), list) |->
                  _parse_pci_device(PciNodesFor(DataOf(w), list)[i])])

\* A storage-class node described as an FPGA went to the accelerators, beside a
\* skipped processor-class node.
C12_Witness ==
  \E w \in Returned :
    /\ Len(Item(profile[w], "pci_accelerators").l) = 1
    /\ Item(profile[w], "pci_storage_controllers") = PyList(<<>>)
    /\ Len(PciNodesFor(DataOf(w), "")) = 1
    /\ \E n \in {NodesBelow(DataOf(w))[i] : i \in DOMAIN NodesBelow(DataOf(w))} :
         OnPci(n) /\ StrField(n, "class") = "storage"

(***************************************************************************)
(* Calls of single functions: the arguments are drawn from pools, the      *)
(* function is applied once and its value kept in outcome                  *)
(***************************************************************************)

\* Bus addresses, well formed and damaged in each of their parts.
BusAddresses ==
  {PyNone, PyStr(""), PyStr("pci@"), PyStr("pci@0000:9d:01"), PyStr("pci@0000-9d-01.5"),
   PyStr("scsi@0:0.0.0"), PyStr("virtio@0")}
  \cup {PyStr(prefix \o domain \o ":" \o bus \o ":" \o device \o "." \o function \o rest) :
          prefix \in {"pci@", "usb@", "PCI@"}, domain \in {"0000", "", "00g0"},
          bus \in {"9d", "AF"}, device \in {"00", "01", "1f", "0", "000", ""},
          function \in {"0", "5", ""}, rest \in {"", " (rev 02)"}}

Calls_is_virtual_function == {Call("_is_virtual_function", <<businfo>>) : businfo \in BusAddresses}

\* Firmware strings as the drivers of the vendors report them, and vendor names.
FirmwareStrings ==
  {PyNone, PyStr(""), PyStr(" "),
   PyStr("FFV21.80.8 bc 5720-v1.39"), PyStr("5719-v1.55 NCSI v1.5.55.0"),
   PyStr("5720-v1.39 bc"), PyStr("FFV7.2 NCSI 1.5"), PyStr("1.39 NCSI v2.1 bc 9.0 x"),
   PyStr("2.33 0x80006d20 20.0.18"), PyStr("1.63, 0x80001099, 1.3310.0"),
   PyStr("9.20 0x8000d95e"), PyStr("9.20,0x8000d95e"), PyStr(" 3.0  beta 2 rc "),
   PyStr("16.28.4512 (DEL0000000015)"), PyStr("14.32.2004(HPE0000000039) rev 2"),
   PyStr("16.28.4512"), PyStr("v16.28 (MT_0000000001)"), PyStr("16.27.1016 ()"),
   PyStr("16.27.1016 (MT_1"), PyStr("1.0.0")}

VendorNames ==
  {PyNone, PyStr(""), PyStr("Broadcom Inc. and subsidiaries"), PyStr("BROADCOM"),
   PyStr("Intel Corporation"), PyStr("Mellanox Technologies"), PyStr("Red Hat, Inc."),
   PyStr("Virtio network device"), PyStr("Broadcom / Intel"), PyStr("Mellanox for Intel"),
   PyStr("Red Hat Mellanox"), PyStr("Realtek Semiconductor Co., Ltd.")}

Calls_parse_firmware_string ==
  {Call("_parse_firmware_string", <<firmware, vendor>>) :
     firmware \in FirmwareStrings, vendor \in VendorNames}

\* Product strings of system nodes, with and without a trailing parenthetical.
ProductStrings ==
  {PyNone, PyStr(""), PyStr(" "),
   PyStr("PowerEdge R750 (SKU=090E;ModelName=PowerEdge R750)"),
   PyStr("PowerEdge R640 (SKU=NotProvided;ModelName=PowerEdge R640)"),
   PyStr("ProLiant DL110 Gen11 (P54277-B21)"), PyStr("KVM (8.2.0)"),
   PyStr("Standard PC (Q35 + ICH9, 2009)"), PyStr("ThinkSystem SR650"),
   PyStr("OptiPlex (SKU= 0A5C ;x)"), PyStr("X (ModelName=Y;SKU=NotProvided)"),
   PyStr("X (SKU=NotProvided2)"), PyStr("X (SKU= NotProvided )"), PyStr("A (B) (C)"),
   PyStr("A (B) C"), PyStr("(only)"), PyStr(" (x)"), PyStr("A ()"), PyStr("A ("),
   PyStr("A (SKU=)"), PyStr("A(b)"), PyStr("  A  ( b )"), PyStr("A (SKU=;SKU=7)"),
   PyStr("A ((x)"), PyStr("A (x))"), PyStr("A (sku=5)"), PyStr("A (SKU=5"),
   PyStr("KVM (8.2.0)\n"), PyStr("Standard\nPC (Q35)")}

Calls_parse_system_model ==
  {Call("_parse_system_model", <<product_str>>) : product_str \in ProductStrings}

\* Vendor and product strings of nodes, with and without bracketed ids.
VendorStrings ==
  {PyNone, PyStr(""), PyStr(" "), PyStr("Intel Corporation [8086]"), PyStr("Red Hat"),
   PyStr("Broadcom Inc. and subsidiaries [14e4]"), PyStr("Intel [8086] "), PyStr("[8086]"),
   PyStr(" [8086]"), PyStr("Intel[8086]"), PyStr("Intel  [  8086]"), PyStr("Intel [808G]"),
   PyStr("Intel []"), PyStr("Intel [8086"), PyStr("Intel 8086]"), PyStr("Intel [10de] [8086]"),
   PyStr("Intel [x] [8086]"), PyStr("Intel [8086]]"), PyStr("Intel [[8086]"),
   PyStr("  Intel  [AbCd]"), PyStr("Intel [8086:1234]"), PyStr("Intel [8086]\n"),
   PyStr("Intel\nCorporation [8086]")}

BracketedProducts ==
  {PyNone, PyStr(""), PyStr("NetXtreme BCM5720 [14E4:165F]"),
   PyStr("Ethernet Controller X710 [8086:1572]"),
   PyStr("MT27800 Family [ConnectX-5] [15b3:1017]"), PyStr("Device [8086:0D5C]"),
   PyStr("Virtio network device"), PyStr("X [8086]"), PyStr("X [8086:]"), PyStr("X [:1572]"),
   PyStr("X [8086:1572:1]"), PyStr("X [8086:157g]"), PyStr("[8086:1572]"),
   PyStr(" [8086:1572]"), PyStr("X[8086:1572]"), PyStr("X [8086:1572] "),
   PyStr("X [1:2] [3:4]"), PyStr("X [a:b]"), PyStr("X [8086 :1572]"), PyStr("X [1:2]]"),
   PyStr("X [8086:1572]\n")}

Calls_parse_vendor_string ==
  {Call("_parse_vendor_string", <<vendor_str>>) : vendor_str \in VendorStrings}

Calls_parse_product_string ==
  {Call("_parse_product_string", <<product_str>>) : product_str \in BracketedProducts}

\* Values of boolean fields and of numeric fields as captures hold them.
BooleanValues ==
  {PyBool(TRUE), PyBool(FALSE), PyNone, PyInt(0), PyInt(1), PyInt(5), PyInt(-1), PyFloat(0),
   PyFloat(2500), PyFloatSpecial("nan"), PyList(<<>>), PyList(<<PyStr("yes")>>), EmptyDict}
  \cup {PyStr(text) : text \in {"true", "TRUE", "Yes", " yes ", "on\n", "\tOFF", "1", "0", "on",
                                "off", "No", "false", "maybe", "", " ", "2", "y", "enabled",
                                "1.0", "t rue"}}

NumericValues ==
  {PyBool(TRUE), PyNone, PyInt(0), PyInt(7), PyInt(-3), PyFloat(2500), PyFloatSpecial("inf"),
   PyList(<<>>), PyList(<<PyStr("4")>>), EmptyDict}
  \cup {PyStr(text) : text \in {"4", "-7", "+3", " 12 ", "1_000", "3.5", "1e3", "0x10", "abc",
                                "", " ", "12abc", "007", "-0", ".5", "5.", "1__0", "_1",
                                "4 GiB", "1,5", "--1", "12\n", "1 2", "nan", "-inf", "1e",
                                "."}}

Calls_normalize_boolean == {Call("normalize_boolean", <<value>>) : value \in BooleanValues}

Calls_normalize_numeric == {Call("normalize_numeric", <<value>>) : value \in NumericValues}

\* Capability entries: names in and out of the name set, with flags, tokens and
\* descriptive texts.
CapabilityKeys == {"pci", "msix", "1000bt-fd", "smbios-2.7"}

CapabilityValues ==
  {PyBool(TRUE), PyBool(FALSE), PyNone, PyInt(1), PyInt(0), PyList(<<>>)}
  \cup {PyStr(text) : text \in {"yes", "No", "TRUE", "0", "1", " false ", "is not ",
                                "PCI Express", "not supported", "None", "disabled by BIOS",
                                "BIOS EEPROM can be upgraded", "", " ", " no ", "status no ",
                                "has no cache", "notebook", "unavailable",
                                "SMBIOS version 2.7", "nonexistent", "on", "Unsupported"}}

Calls_normalize_capabilities ==
  {Call("normalize_capabilities", <<PyDict(<< <<key, value>> >>)>>) :
     key \in CapabilityKeys, value \in CapabilityValues}
  \cup {Call("normalize_capabilities", <<EmptyDict>>),
        Call("normalize_capabilities",
             <<PyDict(<< <<"pci", PyStr("yes")>>, <<"100bt", PyStr("yes")>>,
                         <<"msix", PyBool(TRUE)>>, <<"autonegotiation", PyBool(FALSE)>>,
                         <<"usb", PyStr("not present")>> >>)>>)}

\* Nodes in which the rules of normalize_node compete: keys of one rule holding
\* values of another, and mappings and lists nested in each other.
NestedNodes ==
  {PyDict(<<
     <<"id", PyStr("x")>>,
     <<"class", PyStr("system")>>,
     <<"configuration", PyDict(<<
                          <<"boot", PyStr("yes")>>,
                          <<"cores", PyStr("4")>>,
                          <<"driver", PyStr("ixgbe")>>,
                          <<"link", PyDict(<< <<"a", PyStr("yes")>> >>)>>,
                          <<"size", PyList(<<PyStr("1")>>)>> >>)>>,
     <<"capabilities", PyDict(<< <<"pci", PyStr("PCI Express")>>, <<"x", PyStr("yes")>> >>)>>,
     <<"logicalname", PyStr("eth0")>>,
     <<"physid", PyInt(1)>>,
     <<"version", PyFloat(1500)>> >>),
   PyDict(<<
     <<"id", PyStr("core")>>,
     <<"class", PyStr("bus")>>,
     <<"configuration", PyStr("none")>>,
     <<"capabilities", PyList(<<PyStr("pci")>>)>>,
     <<"logicalname", PyList(<<PyStr("a"), PyStr("b")>>)>>,
     <<"physid", PyNone>>,
     <<"version", PyStr("A01")>> >>),
   PyDict(<<
     <<"id", PyStr("core")>>,
     <<"class", PyStr("bus")>>,
     <<"configuration", PyList(<<PyDict(<< <<"claimed", PyStr("yes")>> >>)>>)>>,
     <<"capabilities", PyList(<<PyDict(<< <<"size", PyStr("1")>> >>)>>)>> >>),
   PyDict(<<
     <<"id", PyStr("core")>>,
     <<"class", PyStr("bus")>>,
     <<"disabled", PyDict(<< <<"claimed", PyStr("yes")>> >>)>>,
     <<"size", PyList(<<PyDict(<< <<"claimed", PyStr("yes")>> >>)>>)>>,
     <<"logicalname", PyDict(<< <<"size", PyStr("1")>> >>)>>,
     <<"physid", PyDict(<< <<"size", PyStr("1")>> >>)>>,
     <<"version", PyList(<<PyStr("1")>>)>> >>),
   PyDict(<<
     <<"id", PyStr("core")>>,
     <<"class", PyStr("bus")>>,
     <<"children", PyList(<<
                     PyDict(<<
                       <<"id", PyStr("a")>>,
                       <<"claimed", PyStr("true")>>,
                       <<"size", PyStr("16")>>,
                       <<"children", PyList(<<
                                       PyDict(<<
                                         <<"width", PyStr("64")>>,
                                         <<"logicalname", PyStr("sda")>>,
                                         <<"x", PyList(<<
                                                  PyList(<<
                                                    PyStr("1"),
                                                    PyDict(<< <<"size", PyStr("2")>> >>) >>) >>)>> >>) >>)>> >>),
                     PyStr("str"),
                     PyDict(<< <<"id", PyStr("b")>> >>),
                     PyNone >>)>> >>),
   PyDict(<<
     <<"claimed", PyStr("yes")>>,
     <<"size", PyStr("abc")>>,
     <<"units", PyStr("bytes")>>,
     <<"width", PyInt(64)>>,
     <<"clock", PyStr(" 33 ")>>,
     <<"boot", PyInt(0)>>,
     <<"link", PyStr("maybe")>> >>),
   PyDict(<<
     <<"a", PyDict(<<
              <<"configuration", PyDict(<<
                                   <<"configuration", PyDict(<< <<"boot", PyStr("yes")>> >>)>>,
                                   <<"capabilities", PyDict(<< <<"pci", PyStr("yes")>> >>)>>,
                                   <<"logicalname", PyStr("x")>>,
                                   <<"physid", PyInt(1)>> >>)>> >>)>> >>),
   PyDict(<<
     <<"capabilities", PyDict(<<
                         <<"capabilities", PyDict(<< <<"pci", PyStr("yes")>> >>)>>,
                         <<"configuration", PyDict(<< <<"boot", PyStr("yes")>> >>)>>,
                         <<"size", PyStr("1")>>,
                         <<"claimed", PyStr("yes")>> >>)>> >>),
   PyList(<<
     PyDict(<< <<"size", PyStr("1")>> >>),
     PyList(<<PyStr("2"), PyDict(<< <<"claimed", PyStr("no")>> >>)>>),
     PyStr("3") >>),
   PyDict(<<>>),
   PyList(<<>>),
   PyStr("size"),
   PyNone,
   PyInt(5),
   PyDict(<<
     <<"logicalname", PyInt(5)>>,
     <<"physid", PyStr("01")>>,
     <<"version", PyNone>>,
     <<"x", PyDict(<<
              <<"physid", PyInt(2)>>,
              <<"version", PyBool(TRUE)>>,
              <<"y", PyDict(<< <<"logicalname", PyStr("z")>> >>)>> >>)>> >>)}

Calls_normalize_node == {Call("normalize_node", <<node>>) : node \in NestedNodes}

\* A tree of nodes below a system node.
Tree(children) == Node("host", "system", << <<"children", PyList(children)>> >>)

\* A firmware node with the given description, capabilities and other fields.
FirmwareNode(description, capabilities, fields) ==
  Node("firmware", "memory",
       << <<"description", description>>, <<"capabilities", capabilities>> >> \o fields)

BiosDescriptions ==
  {Absent, PyStr("BIOS"), PyStr("UEFI firmware"), PyStr("Uefi"), PyStr("EFI"), PyStr("efi boot"),
   PyStr("Unified Extensible Firmware"), PyStr("")}

BiosCapabilities ==
  {Absent, Obj(<< <<"uefi", PyStr("UEFI specification is supported")>> >>),
   Obj(<< <<"pci", PyBool(TRUE)>>, <<"UEFI", PyBool(TRUE)>> >>), PyList(<<PyStr("uefi")>>),
   PyStr("uefi")}

\* Firmware nodes, nodes that look like one, and nodes that hold one.
BiosNodes ==
  {FirmwareNode(PyStr("BIOS"), Absent, << <<"vendor", PyStr("AMI")>> >>),
   FirmwareNode(PyStr("UEFI"), Absent, << <<"version", PyStr("1.2")>> >>),
   Node("firmware", "generic", << <<"description", PyStr("UEFI")>> >>),
   Node("firmware:0", "memory", << <<"description", PyStr("UEFI")>> >>),
   Node("core", "bus",
        << <<"children", PyList(<<FirmwareNode(PyStr("EFI"), Absent, << <<"date", PyStr("2019")>> >>)>>)>> >>),
   Node("memory", "memory", << <<"description", PyStr("System Memory")>> >>),
   PyStr("firmware")}

BiosTrees ==
  {Tree(<<FirmwareNode(description, capabilities,
                       << <<"vendor", PyStr("Dell Inc.")>>, <<"version", PyFloat(2500)>>,
                          <<"date", PyStr("01/01/2020")>> >>)>>) :
     description \in BiosDescriptions, capabilities \in BiosCapabilities}
  \cup {Tree(<<first, second>>) : first \in BiosNodes, second \in BiosNodes}
  \cup {Tree(<<>>), EmptyDict,
        FirmwareNode(PyStr("EFI"), Absent,
                     << <<"children", PyList(<<FirmwareNode(PyStr("UEFI"), Absent, <<>>)>>)>> >>)}

Calls_extract_bios_info == {Call("_extract_bios_info", <<data>>) : data \in BiosTrees}

\* Disks and volumes with and without a size, and storage controllers.
Disk(id, businfo, description, size) ==
  Node(id, "disk", << <<"businfo", businfo>>, <<"description", description>>, <<"size", size>> >>)

Volume(id, description, size) ==
  Node(id, "volume", << <<"description", PyStr(description)>>, <<"size", size>> >>)

Controller(id, children) ==
  Node(id, "storage", << <<"description", PyStr("controller")>>, <<"children", PyList(children)>> >>)

ScsiDisk == Disk("disk:0", PyStr("scsi@0:0.0.0"), PyStr("ATA Disk"), PyInt(1000 * GiB))
PlainDisk == Disk("disk:1", PyStr(""), PyStr("SCSI Disk"), PyInt(2 * GiB))
Namespace == Disk("namespace", PyStr("nvme@0:1"), Absent, PyInt(1536))
Cdrom == Disk("cdrom", Absent, PyStr("DVD reader"), Absent)
EmptySlot == Disk("disk:2", Absent, PyStr("Empty slot"), PyNone)
CardReader == Disk("disk:3", Absent, PyStr("Card reader"), PyInt(0))
Ext4 == Volume("volume:0", "EXT4 volume", PyInt(2048))
Swap == Volume("volume:1", "swap", Absent)
Enclosure == Node("generic", "generic", << <<"description", PyStr("enclosure")>>, <<"size", PyInt(4096)>> >>)

StorageTrees ==
  {Tree(<<ScsiDisk, Controller("nvme", <<Namespace, Ext4, Enclosure>>), PlainDisk>>),
   Tree(<<Cdrom, ScsiDisk, EmptySlot, Controller("sata", <<Swap, Ext4, CardReader>>)>>),
   Tree(<<Controller("raid", <<Controller("sas", <<Ext4>>), PlainDisk>>)>>),
   Tree(<<Node("disk:0", "disk",
               << <<"description", PyStr("outer")>>, <<"size", PyInt(GiB)>>,
                  <<"children", PyList(<<Disk("disk:1", Absent, PyStr("inner"), PyInt(2 * GiB)),
                                         Ext4>>)>> >>)>>),
   Node("host", "storage", << <<"children", PyList(<<ScsiDisk, Ext4>>)>> >>),
   Tree(<<>>), EmptyDict,
   Tree(<<Node("nvme", "storage", <<>>), Controller("sata", <<>>)>>),
   Tree(<<Controller("nvme", <<Namespace>>), Controller("nvme", <<Namespace>>)>>),
   Tree(<<Ext4, CardReader, Enclosure>>),
   Tree(<<Controller("sata", <<Cdrom, EmptySlot, CardReader, Swap>>)>>),
   Tree(<<ScsiDisk, ScsiDisk>>)}

\* Network nodes by their configuration, and configurations that are no mapping.
Configured(vendor, fields) ==
  Node("network", "network", << <<"vendor", vendor>>, <<"configuration", Obj(fields)>> >>)

LinkValues == {Absent, PyStr("yes"), PyStr("no"), PyStr("YES"), PyStr("up"), PyBool(TRUE), PyNone}

AutonegotiationValues == {Absent, PyStr("on"), PyStr("off"), PyStr("On"), PyStr(""), PyBool(FALSE)}

DuplexValues == {Absent, PyStr("full"), PyStr("half"), PyNone}

LinkNodes ==
  {Configured(Absent, << <<"link", link>>, <<"autonegotiation", autonegotiation>>, <<"duplex", duplex>> >>) :
     link \in LinkValues, autonegotiation \in AutonegotiationValues, duplex \in DuplexValues}
  \cup {Node("network", "network", << <<"configuration", config>> >>) :
          config \in {Absent, PyNone, PyStr("link=yes duplex=full"),
                       PyList(<<PyStr("link"), PyStr("yes")>>)}}

NicsWithFirmware ==
  {Configured(vendor, << <<"firmware", firmware>> >>) :
     vendor \in {Absent, PyStr("Broadcom Inc. and subsidiaries [14E4]"), PyStr("Intel Corporation"),
                  PyStr("Mellanox Technologies [15B3]"), PyStr("Red Hat, Inc.")},
     firmware \in {Absent, PyStr(""), PyStr(" "), PyStr("FFV21.80.8 bc 5720-v1.39"),
                    PyStr("5719-v1.55 NCSI v1.5.55.0"), PyStr("5720-v1.39 bc"),
                    PyStr("2.33 0x80006d20 20.0.18"), PyStr("9.20 0x8000d95e"),
                    PyStr("16.28.4512 (DEL0000000015)"), PyStr("1.0")}}

Calls_parse_network_interface ==
  {Call("_parse_network_interface", <<node>>) : node \in LinkNodes \cup NicsWithFirmware}

\* Trees of network nodes on and off the PCI bus.
Nic(id, businfo, description, children) ==
  Node(id, "network", << <<"businfo", businfo>>, <<"description", PyStr(description)>>,
                         <<"children", children>> >>)

VirtioNic ==
  Nic("network", PyStr("pci@0000:00:03.0"), "Ethernet controller",
      PyList(<<Nic("virtio0", PyStr("virtio@0"), "Ethernet interface", Absent)>>))

NetworkTrees ==
  {Tree(<<VirtioNic, Nic("network:1", Absent, "Wireless interface", Absent),
          Nic("network:2", PyStr("usb@1:2"), "Ethernet interface", Absent)>>),
   Tree(<<Node("pci", "bridge",
               << <<"businfo", PyStr("pci@0000:00:1c.0")>>,
                  <<"children", PyList(<<Nic("network:0", PyStr("pci@0000:3b:00.0"), "Ethernet interface", Absent),
                                         Nic("network:1", PyStr("pci@0000:3b:00.1"), "Ethernet accelerator", Absent)>>)>> >>)>>),
   Nic("network", PyStr("pci@0000:01:00.0"), "Ethernet interface",
       PyList(<<Nic("network", PyStr("pci@0000:01:00.0"), "Ethernet interface", Absent)>>)),
   Tree(<<Nic("network", PyStr("pci@0000:01:00.0"), "Ethernet interface", Absent),
          Nic("network", PyStr("pci@0000:01:00.0"), "Ethernet interface", Absent)>>),
   Tree(<<Nic("network", PyStr("PCI@0000:01:00.0"), "Ethernet interface", Absent), ScsiDisk>>),
   Tree(<<>>), EmptyDict}

Calls_parse == {Call("parse", <<data>>) : data \in NetworkTrees}

DiskBusinfos ==
  {Absent} \cup {PyStr(b) : b \in {"", "nvme@0:1", "scsi@0:0.0.0", "virtio@3", "pci@0000:00:1f.2",
                                     "ata@1", "sata@2", "NVME@1", "Scsi@1", "usb@2:1",
                                     "scsi-virtio@1", "virtio-nvme"}}

DiskDescriptions ==
  {Absent} \cup {PyStr(d) : d \in {"", "ATA Disk", "NVMe SSD", "SCSI Disk", "Virtio block device",
                                     "SATA controller", "Virtual I/O device", "data volume",
                                     "Mass storage", "nvme scsi"}}

Calls_parse_storage_device ==
  {Call("_parse_storage_device", <<Disk("disk", businfo, description, PyInt(2 * GiB))>>) :
     businfo \in DiskBusinfos, description \in DiskDescriptions}
  \cup {Call("_parse_storage_device", <<node>>) : node \in {Cdrom, EmptySlot, CardReader, Ext4}}

Calls_extract_storage_devices ==
  {Call("_extract_storage_devices", <<data>>) : data \in StorageTrees}

\* The HardwareInfo instance constructed around a data sub-tree.
Instance(data) ==
  HardwareInfo_init("n", Wrapper(PyStr("n"), data, Absent))

\* The function named fn is applied to the arguments of the call and returns value.
Return(fn, value) ==
  /\ call.fn = fn
  /\ outcome = Pending
  /\ outcome' = value
  /\ UNCHANGED <<doc, src, pc, norm, inst, profile, call>>
  /\ UNCHANGED tasks

Call_is_virtual_function == Return("_is_virtual_function", _is_virtual_function(call.args[1]))

Call_parse_firmware_string ==
  Return("_parse_firmware_string", _parse_firmware_string(call.args[1], call.args[2]))

Call_parse_system_model == Return("_parse_system_model", _parse_system_model(call.args[1]))

Call_parse_vendor_string == Return("_parse_vendor_string", _parse_vendor_string(call.args[1]))

Call_parse_product_string ==
  Return("_parse_product_string", _parse_product_string(call.args[1]))

Call_normalize_boolean == Return("normalize_boolean", normalize_boolean(call.args[1]))

Call_normalize_numeric == Return("normalize_numeric", normalize_numeric(call.args[1]))

Call_normalize_capabilities ==
  Return("normalize_capabilities", normalize_capabilities(call.args[1]))

Call_normalize_node == Return("normalize_node", normalize_node(call.args[1]))

Call_extract_bios_info ==
  Return("_extract_bios_info", _extract_bios_info(Instance(call.args[1])))

Call_extract_storage_devices ==
  Return("_extract_storage_devices", _extract_storage_devices(Instance(call.args[1])))

Call_parse_network_interface ==
  Return("_parse_network_interface", _parse_network_interface(call.args[1]))

Call_parse == Return("parse", parse(Instance(call.args[1])))

Call_parse_storage_device ==
  Return("_parse_storage_device", _parse_storage_device(call.args[1]))

Calls ==
  Calls_parse_network_interface \cup Calls_parse \cup Calls_parse_storage_device \cup Calls_extract_storage_devices \cup Calls_extract_bios_info \cup
  Calls_normalize_node \cup Calls_normalize_capabilities \cup
  Calls_normalize_boolean \cup Calls_normalize_numeric \cup
  Calls_is_virtual_function \cup Calls_parse_firmware_string \cup Calls_parse_system_model
  \cup Calls_parse_vendor_string \cup Calls_parse_product_string

\* Either one document is processed or one function is called.
InitCalls ==
  \/ Init
  \/ /\ doc = <<>> /\ src = <<>> /\ pc = <<>>
     /\ norm = <<>> /\ inst = <<>> /\ profile = <<>>
     /\ call \in Calls
     /\ outcome = Pending
     /\ NoTask

NextCalls ==
  \/ Next
  \/ Call_is_virtual_function
  \/ Call_parse_firmware_string
  \/ Call_parse_system_model
  \/ Call_parse_vendor_string
  \/ Call_parse_product_string
  \/ Call_normalize_boolean
  \/ Call_normalize_numeric
  \/ Call_normalize_capabilities
  \/ Call_normalize_node
  \/ Call_extract_bios_info
  \/ Call_extract_storage_devices
  \/ Call_parse_storage_device
  \/ Call_parse_network_interface
  \/ Call_parse

SpecCalls == InitCalls /\ [][NextCalls]_vars

\* Whether the call of fn was made and has returned.
Made(fn) == call.fn = fn /\ outcome # Pending

\* The positions of the character c in s.
Positions(s, c) == {i \in 1..Len(s) : CharAt(s, i) = c}

\* The device fields s can be read with as pci@<domain>:<bus>:<device>.<function>...,
\* every field a run of hex digits.
PciDevices(s) ==
  IF ~StartsWith(s, "pci@") THEN {}
  ELSE {SubSeq(s, j + 1, k - 1) :
          <<i, j, k>> \in {t \in Positions(s, ":") \X Positions(s, ":") \X Positions(s, ".") :
                             /\ t[1] < t[2] /\ t[2] < t[3] /\ t[3] < Len(s)
                             /\ IsHexRun(SubSeq(s, 5, t[1] - 1))
                             /\ IsHexRun(SubSeq(s, t[1] + 1, t[2] - 1))
                             /\ IsHexRun(SubSeq(s, t[2] + 1, t[3] - 1))
                             /\ IsHex(CharAt(s, t[3] + 1))}}

IsVirtual(businfo) ==
  IsStr(businfo) /\ \E device \in PciDevices(businfo.s) : device # "00"

\* The entries of a profile that have an is_virtual_function field.
VirtualFlags(p) ==
  UNION {{Item(p, k).l[i] : i \in DOMAIN Item(p, k).l} :
           k \in PciLists \cup {"network_interfaces"}}

\* C13: _is_virtual_function is True exactly for an address of the form
\* pci@<domain>:<bus>:<device>.<function> with hex fields whose device is not
\* "00", and False for None, "", other buses and addresses that do not parse;
\* the is_virtual_function of every network interface and PCI entry is this
\* function of the node's businfo.
C13_VirtualFunction ==
  /\ Made("_is_virtual_function") => outcome = PyBool(IsVirtual(call.args[1]))
  /\ \A w \in Returned : \A e \in VirtualFlags(profile[w]) :
       Item(e, "is_virtual_function") = PyBool(IsVirtual(Item(e, "businfo")))

\* Device 01 was found virtual.
C13_Witness ==
  /\ Made("_is_virtual_function")
  /\ call.args[1] = PyStr("pci@0000:9d:01.5")
  /\ outcome = PyBool(TRUE)

\* Device 00 with function 5 was found physical.
C13_WitnessPhysical ==
  /\ Made("_is_virtual_function")
  /\ call.args[1] = PyStr("pci@0000:9d:00.5")
  /\ outcome = PyBool(FALSE)

\* The grammar a vendor name selects: the first in the fixed order whose name the
\* lowercased vendor name contains.
GrammarOf(vendor) ==
  LET name == IF IsStr(vendor) THEN Lower(vendor.s) ELSE "" IN
  IF Contains(name, "broadcom") THEN "broadcom"
  ELSE IF Contains(name, "intel") THEN "intel"
  ELSE IF Contains(name, "mellanox") THEN "mellanox"
  ELSE IF Contains(name, "red hat") \/ Contains(name, "virtio") THEN "whole"
  ELSE "generic"

RECURSIVE CommasAsSpaces(_)
CommasAsSpaces(s) ==
  IF s = "" THEN ""
  ELSE (IF CharAt(s, 1) = "," THEN " " ELSE CharAt(s, 1)) \o CommasAsSpaces(Rest(s))

\* The token after the first token equal to word that has one after it and for
\* which Ok holds of that one; "" when there is none.
TokenAfter(tokens, word, Ok(_)) ==
  LET hits == {i \in 1..(Len(tokens) - 1) : tokens[i] = word /\ Ok(tokens[i + 1])}
  IN IF hits = {} THEN "" ELSE tokens[(CHOOSE i \in hits : \A j \in hits : i <= j) + 1]

IsVersionToken(t) ==
  Len(t) >= 2 /\ CharAt(t, 1) = "v" /\ \A i \in 2..Len(t) : IsDigit(CharAt(t, i)) \/ CharAt(t, i) = "."

\* The ways to read s as <primary> (<psid>)...: a run of digits and dots, spaces,
\* and a parenthesis that closes.
PsidReadings(s) ==
  {<<SubSeq(s, 1, o[1]), SubSeq(s, o[2] + 1, o[3] - 1)>> :
     o \in {t \in (1..Len(s)) \X Positions(s, "(") \X Positions(s, ")") :
              /\ t[1] < t[2] /\ t[2] + 1 < t[3]
              /\ \A i \in 1..t[1] : IsDigit(CharAt(s, i)) \/ CharAt(s, i) = "."
              /\ \A i \in (t[1] + 1)..(t[2] - 1) : IsSpace(CharAt(s, i))
              /\ \A i \in (t[2] + 1)..(t[3] - 1) : CharAt(s, i) # ")"}}

NoFields == [primary |-> "", extended |-> "", bootcode |-> "", nvm |-> "", psid |-> "", ncsi |-> ""]

\* The fields each grammar gives for a firmware string.
FirmwareFields(s, grammar) ==
  LET tokens == Split(s)
      parts == Split(CommasAsSpaces(s))
      rest(q) == IF Len(q) > 1 THEN Join(Tail(q), " ") ELSE ""
  IN CASE grammar = "broadcom" ->
            [NoFields EXCEPT !.primary = tokens[1], !.extended = rest(tokens),
                             !.bootcode = TokenAfter(tokens, "bc", LAMBDA t : TRUE),
                             !.ncsi = TokenAfter(tokens, "NCSI", IsVersionToken)]
       [] grammar = "intel" ->
            IF Len(parts) >= 3
            THEN [NoFields EXCEPT !.primary = parts[1], !.nvm = parts[Len(parts)],
                                  !.extended = "NVM " \o parts[Len(parts)]]
            ELSE [NoFields EXCEPT !.primary = parts[1], !.extended = rest(parts)]
       [] grammar = "mellanox" ->
            IF PsidReadings(s) = {} THEN [NoFields EXCEPT !.primary = s]
            ELSE LET r == CHOOSE r \in PsidReadings(s) : TRUE
                 IN [NoFields EXCEPT !.primary = r[1], !.psid = r[2],
                                     !.extended = "PSID: " \o r[2]]
       [] grammar = "whole" -> [NoFields EXCEPT !.primary = s]
       [] OTHER -> [NoFields EXCEPT !.primary = tokens[1], !.extended = rest(tokens)]

\* C14: _parse_firmware_string takes the grammar of the first of broadcom, intel,
\* mellanox, red hat or virtio that the vendor name contains, whatever its case,
\* the generic one otherwise, and gives that grammar's primary, extended,
\* bootcode, nvm, psid and ncsi.
C14_FirmwareGrammar ==
  (Made("_parse_firmware_string") /\ IsStr(call.args[1]) /\ Split(call.args[1].s) # <<>>)
    => /\ IsDict(outcome)
       /\ Cardinality(PsidReadings(call.args[1].s)) <= 1
       /\ \A field \in DOMAIN NoFields :
            Item(outcome, field)
              = opt(FirmwareFields(call.args[1].s, GrammarOf(call.args[2]))[field])

\* A vendor name with both Broadcom and Intel in it took the Broadcom grammar.
C14_Witness ==
  /\ Made("_parse_firmware_string")
  /\ call.args = <<PyStr("1.39 NCSI v2.1 bc 9.0 x"), PyStr("Broadcom / Intel")>>
  /\ Item(outcome, "bootcode") = PyStr("9.0")
  /\ Item(outcome, "ncsi") = PyStr("v2.1")
  /\ Item(outcome, "nvm") = PyNone

\* Whether a value is absent or a string of one line, as the fields of a capture are.
SingleLine(v) == v = PyNone \/ (IsStr(v) /\ ~Contains(v.s, "\n"))

\* The opening parentheses of s that start a trailing parenthetical: one that is
\* not empty, holds no ")" and is closed by the last character of s, after a base
\* of at least one character.
Parentheticals(s) ==
  {o \in Positions(s, "(") :
     /\ o > 1
     /\ o + 1 < Len(s)
     /\ Positions(s, ")") \cap (o + 1)..Len(s) = {Len(s)}}

\* The values s gives after "SKU=", each up to the next ";" or the end of s and not
\* empty, in the order of their positions.
SkuValues(s) ==
  {<<i, SubSeq(s, i + 4, j - 1)>> :
     <<i, j>> \in {t \in (1..(Len(s) - 3)) \X (1..(Len(s) + 1)) :
                     /\ SubSeq(s, t[1], t[1] + 3) = "SKU="
                     /\ t[2] > t[1] + 4
                     /\ Positions(s, ";") \cap (t[1] + 4)..(t[2] - 1) = {}
                     /\ t[2] = Len(s) + 1 \/ CharAt(s, t[2]) = ";"}}

\* What the claim gives as model and SKU of a product: a pair of values, the SKU
\* left open (of type "any") where the claim names none.
ModelAndSku(product) ==
  IF product = PyNone \/ product = PyStr("") THEN <<PyNone, PyNone>>
  ELSE IF Parentheticals(product.s) = {} THEN <<product, PyNone>>
  ELSE LET o == First(Parentheticals(product.s))
           base == Strip(SubSeq(product.s, 1, o - 1))
           parenthetical == Strip(SubSeq(product.s, o + 1, Len(product.s) - 1))
           values == SkuValues(parenthetical)
           value == Strip((CHOOSE v \in values : \A u \in values : v[1] <= u[1])[2])
       IN IF ~Contains(parenthetical, "SKU=") THEN <<PyStr(base), PyStr(parenthetical)>>
          ELSE IF values = {} THEN <<PyStr(base), [t |-> "any"]>>
          ELSE IF value = "NotProvided" THEN <<PyStr(base), PyNone>>
          ELSE <<PyStr(base), PyStr(value)>>

\* Whether the model and SKU found are those the claim gives for product.
IsModelAndSku(model, sku, product) ==
  /\ model = ModelAndSku(product)[1]
  /\ ModelAndSku(product)[2].t = "any" \/ sku = ModelAndSku(product)[2]

C15_WitnessProfile ==
  \E w \in Returned :
    /\ Item(profile[w], "system_model") = PyStr("PowerEdge R640")
    /\ Item(profile[w], "system_sku") = PyNone
    /\ IsStr(DictGet(DataOf(w), "product", PyNone))

\* The colon-separated fields of s when each is a run of hex digits, else <<>>.
RECURSIVE HexFields(_)
HexFields(s) ==
  LET colon == First(Positions(s, ":"))
      field == IF colon = 0 THEN s ELSE SubSeq(s, 1, colon - 1)
      others == HexFields(SubSeq(s, colon + 1, Len(s)))
  IN IF field = "" \/ \E i \in 1..Len(field) : ~IsHex(CharAt(field, i)) THEN <<>>
     ELSE IF colon = 0 THEN <<field>>
     ELSE IF others = <<>> THEN <<>>
     ELSE <<field>> \o others

\* The opening brackets of s after which s ends with count hex ids in brackets,
\* after a name of at least one character.
IdBrackets(s, count) ==
  {o \in Positions(s, "[") :
     /\ o > 1
     /\ CharAt(s, Len(s)) = "]"
     /\ Len(HexFields(SubSeq(s, o + 1, Len(s) - 1))) = count}

\* Whether found, a sequence of values, is what the claim gives for text read as a
\* name with count bracketed ids: an id is the hex number of the text, in either
\* case of its letters.
IsNameAndIds(found, text, count) ==
  /\ Len(found) = count + 1
  /\ IF text = PyNone \/ text = PyStr("") THEN \A i \in 1..(count + 1) : found[i] = PyNone
     ELSE IF IdBrackets(text.s, count) = {}
       THEN found[1] = text /\ \A i \in 2..(count + 1) : found[i] = PyNone
     ELSE \E o \in IdBrackets(text.s, count) :
            /\ found[1] = PyStr(Strip(SubSeq(text.s, 1, o - 1)))
            /\ \A i \in 1..count :
                 /\ IsStr(found[i + 1])
                 /\ Lower(found[i + 1].s)
                      = Lower(HexFields(SubSeq(text.s, o + 1, Len(text.s) - 1))[i])

C16_WitnessProduct ==
  /\ Made("_parse_product_string")
  /\ call.args[1] = PyStr("MT27800 Family [ConnectX-5] [15b3:1017]")
  /\ outcome = Tuple(<<PyStr("MT27800 Family [ConnectX-5]"), PyStr("15B3"), PyStr("1017")>>)

TrueWords == {"true", "yes", "1", "on"}
FalseWords == {"false", "no", "0", "off"}

\* Whether coerced is what the claim gives for value under a boolean key, word
\* being the text of a string that is compared with the words.
IsBooleanOf(coerced, value, word) ==
  IF IsBool(value) THEN coerced = value
  ELSE IF IsStr(value) /\ Lower(word) \in TrueWords THEN coerced = PyBool(TRUE)
  ELSE IF IsStr(value) /\ Lower(word) \in FalseWords THEN coerced = PyBool(FALSE)
  ELSE IF value.t \in {"int", "float", "fspecial"}
    THEN coerced = PyBool(value \notin {PyInt(0), PyFloat(0)})
  ELSE coerced = value

\* Whether coerced is what the claim gives for value under a numeric key.
IsNumericOf(coerced, value) ==
  IF IsNumber(value) THEN coerced = value
  ELSE IF IsStr(value)
    THEN IF IntParses(value.s) THEN coerced = PyInt(IntValue(value.s))
         ELSE IF FloatParses(value.s) THEN coerced = FloatValue(value.s)
         ELSE coerced = value
  ELSE ~IsRaise(coerced)

\* C17: under a boolean key a boolean passes, a string equal without regard to
\* case to true/yes/1/on becomes true and to false/no/0/off false, a number
\* becomes whether it is not zero, any other value is unchanged; under a numeric
\* key a number passes, a string becomes an integer if it parses as one, else a
\* float if it parses as one, else stays; no coercion raises.
C17_Coercion ==
  /\ Made("normalize_boolean")
       => IsBooleanOf(outcome, call.args[1], StrOf(call.args[1]))
  /\ Made("normalize_numeric") => IsNumericOf(outcome, call.args[1])

\* C17 as amended: the string under a boolean key is compared with the words
\* after the whitespace around it is removed.
C17_CoercionTrimmed ==
  /\ Made("normalize_boolean")
       => IsBooleanOf(outcome, call.args[1], Strip(StrOf(call.args[1])))
  /\ Made("normalize_numeric") => IsNumericOf(outcome, call.args[1])

\* A word for true with whitespace around it became true.
C17_Witness ==
  /\ Made("normalize_boolean")
  /\ call.args[1] = PyStr(" yes ")
  /\ outcome = PyBool(TRUE)

\* A string that parses as a float only became a float.
C17_WitnessNumeric ==
  /\ Made("normalize_numeric")
  /\ call.args[1] = PyStr("3.5")
  /\ outcome = PyFloat(3500)

NegationMarkers == {" no ", "not ", "none", "disabled", "unsupported", "unavailable"}

\* Whether stored is what the claim gives for the capability entry of key and
\* value, text being the lowercased text in which the tokens and the negation
\* markers are looked for.
IsCapabilityOf(stored, key, value, text) ==
  IF key \notin capability_boolean_patterns /\ ~IsBool(value) THEN stored = value
  ELSE IF ~IsStr(value) THEN ~IsRaise(stored)
  ELSE IF text \in {"true", "yes", "1"} THEN stored = PyBool(TRUE)
  ELSE IF text \in {"false", "no", "0"} THEN stored = PyBool(FALSE)
  ELSE IF \E marker \in NegationMarkers : Contains(text, marker) THEN stored = PyBool(FALSE)
  ELSE IF text # "" THEN stored = PyBool(TRUE)
  ELSE IsBool(stored)

\* Whether the call of normalize_capabilities returned a mapping of the same keys
\* in the same order.
MadeCapabilities ==
  /\ Made("normalize_capabilities")
  /\ IsDict(outcome)
  /\ Len(outcome.d) = Len(call.args[1].d)
  /\ \A i \in 1..Len(outcome.d) : outcome.d[i][1] = call.args[1].d[i][1]

\* C18: normalize_capabilities rewrites an entry only when its key is in the
\* capability-name set or its value is a boolean; a string value of such an entry
\* becomes a boolean: the tokens true/false/yes/no/1/0 in either case convert
\* directly, a string with a negation marker in its lowercased text gives false,
\* other non-empty text gives true; every other entry is unchanged.
C18_Capabilities ==
  Made("normalize_capabilities")
    => /\ MadeCapabilities
       /\ \A i \in 1..Len(outcome.d) :
            IsCapabilityOf(outcome.d[i][2], call.args[1].d[i][1], call.args[1].d[i][2],
                           Lower(StrOf(call.args[1].d[i][2])))

\* The same with the tokens and the negation markers looked for in the lowercased
\* text after the whitespace around it is removed, as the code does.
C18_CapabilitiesTrimmed ==
  Made("normalize_capabilities")
    => /\ MadeCapabilities
       /\ \A i \in 1..Len(outcome.d) :
            IsCapabilityOf(outcome.d[i][2], call.args[1].d[i][1], call.args[1].d[i][2],
                           Strip(Lower(StrOf(call.args[1].d[i][2]))))

\* A descriptive text with a negation marker became false under a capability name.
C18_Witness ==
  /\ MadeCapabilities
  /\ call.args[1] = PyDict(<< <<"pci", PyStr("not supported")>> >>)
  /\ outcome = PyDict(<< <<"pci", PyBool(FALSE)>> >>)

\* A token under a name outside the capability-name set was left as it was.
C18_WitnessUnchanged ==
  /\ MadeCapabilities
  /\ call.args[1] = PyDict(<< <<"1000bt-fd", PyStr("yes")>> >>)
  /\ outcome = call.args[1]

\* Whether out is a mapping with the keys of node in the order of node.
SameKeys(node, out) ==
  /\ IsDict(out)
  /\ Len(out.d) = Len(node.d)
  /\ \A i \in 1..Len(node.d) : out.d[i][1] = node.d[i][1]

\* Whether out is a list as long as the list node.
SameLength(node, out) == IsList(out) /\ Len(out.l) = Len(node.l)

\* Whether stored is the value forced to a string, None preserved.
IsStringOf(stored, value) ==
  IF value = PyNone THEN stored = PyNone
  ELSE /\ IsStr(stored)
       /\ IsStr(value) => stored = value
       /\ value.t = "int" => stored.s = IntToStr(value.n)

\* Whether stored is what the field rules give for an entry of a configuration.
IsConfigurationOf(stored, key, value) ==
  IF key \in boolean_fields THEN IsBooleanOf(stored, value, Strip(StrOf(value)))
  ELSE IF key \in numeric_fields THEN IsNumericOf(stored, value)
  ELSE stored = value

RECURSIVE IsWalkOf(_, _)
\* Whether stored is what the one rule that applies to key and value gives: the
\* first that matches in the order of the claim.
IsRuleOf(stored, key, value) ==
  IF key = "configuration" /\ IsDict(value)
    THEN /\ SameKeys(value, stored)
         /\ \A i \in 1..Len(value.d) :
              IsConfigurationOf(stored.d[i][2], value.d[i][1], value.d[i][2])
  ELSE IF key = "capabilities" /\ IsDict(value)
    THEN /\ SameKeys(value, stored)
         /\ \A i \in 1..Len(value.d) :
              IsCapabilityOf(stored.d[i][2], value.d[i][1], value.d[i][2],
                             Strip(Lower(StrOf(value.d[i][2]))))
  ELSE IF key = "logicalname"
    THEN stored = (IF IsStr(value) THEN PyList(<<value>>) ELSE value)
  ELSE IF key \in {"physid", "version"} THEN IsStringOf(stored, value)
  ELSE IF key \in boolean_fields THEN IsBooleanOf(stored, value, Strip(StrOf(value)))
  ELSE IF key \in numeric_fields THEN IsNumericOf(stored, value)
  ELSE IF IsDict(value) \/ IsList(value) THEN IsWalkOf(stored, value)
  ELSE stored = value

\* Whether out is what the recursive walk gives for node.
IsWalkOf(out, node) ==
  IF IsDict(node)
    THEN /\ SameKeys(node, out)
         /\ \A i \in 1..Len(node.d) : IsRuleOf(out.d[i][2], node.d[i][1], node.d[i][2])
  ELSE IF IsList(node)
    THEN /\ SameLength(node, out)
         /\ \A i \in 1..Len(node.l) :
              IF IsDict(node.l[i]) \/ IsList(node.l[i]) THEN IsWalkOf(out.l[i], node.l[i])
              ELSE out.l[i] = node.l[i]
  ELSE out = node

\* The data sub-tree of a capture.
DataIn(capture) == Item(Item(capture, "hardware"), "data")

\* C19: to each key of each mapping the recursive walk reaches, one rule is
\* applied, the first that matches of: "configuration" with a mapping (the field
\* rules on its entries); "capabilities" with a mapping; "logicalname" (a string
\* becomes a list of one, anything else passes); "physid" or "version" (forced to
\* a string, None preserved); a boolean field; a numeric field; a mapping or a
\* list (walked in turn, at every depth); else the value passes unchanged.
C19_RuleOrder ==
  /\ Made("normalize_node") => IsWalkOf(outcome, call.args[1])
  /\ \A w \in Typed :
       ValidCapture(doc[w]) => IsWalkOf(DataIn(norm[w]), DataIn(doc[w]))

\* A mapping under a boolean field was taken by the boolean rule, which leaves it
\* as it is, and not walked.
C19_Witness ==
  /\ Made("normalize_node")
  /\ IsDict(call.args[1])
  /\ HasKey(call.args[1], "disabled")
  /\ Item(call.args[1], "disabled") = PyDict(<< <<"claimed", PyStr("yes")>> >>)
  /\ Item(outcome, "disabled") = PyDict(<< <<"claimed", PyStr("yes")>> >>)
  /\ Item(outcome, "physid") = PyStr("{'size': '1'}")

\* A node two children lists down was walked: its width became a number.
C19_WitnessDepth ==
  /\ Made("normalize_node")
  /\ IsDict(outcome)
  /\ HasKey(outcome, "children")
  /\ Item(Item(outcome, "children").l[1], "children").l[1].d[1] = <<"width", PyInt(64)>>

RECURSIVE HasMapping(_)
\* Whether a value is a mapping or a list that holds one at some depth.
HasMapping(v) ==
  \/ IsDict(v)
  \/ IsList(v) /\ \E i \in 1..Len(v.l) : HasMapping(v.l[i])

RECURSIVE ShapeKept(_, _, _, _)
\* Whether out has the shape of node: a mapping of the same keys for a mapping,
\* with the same id, and for a children list, or a list that holds mappings, a
\* list of the same length with every item in its place. The keys in forced are
\* those below which nothing is asked.
ShapeKept(node, out, key, forced) ==
  IF key \in forced THEN TRUE
  ELSE IF IsDict(node)
    THEN /\ SameKeys(node, out)
         /\ Keys(out) = Keys(node)
         /\ IsStr(DictGet(node, "id", PyNone)) => Item(out, "id") = Item(node, "id")
         /\ \A i \in 1..Len(node.d) :
              ShapeKept(node.d[i][2], out.d[i][2], node.d[i][1], forced)
  ELSE IF IsList(node) /\ (key = "children" \/ HasMapping(node))
    THEN /\ SameLength(node, out)
         /\ \A i \in 1..Len(node.l) : ShapeKept(node.l[i], out.l[i], "", forced)
  ELSE TRUE

\* Whether a node can be the data sub-tree of a valid capture.
ValidData(node) == IsDict(node) /\ {"id", "class"} \subseteq Keys(node)

\* Whether the data sub-trees of the valid captures kept their shape, but for
\* what lies below the keys in forced.
ShapesKept(forced) ==
  /\ Made("normalize_node") /\ ValidData(call.args[1])
       => ShapeKept(call.args[1], outcome, "", forced)
  /\ \A w \in Typed :
       ValidCapture(doc[w]) => ShapeKept(DataIn(doc[w]), DataIn(norm[w]), "", forced)

\* C20: the normalized data sub-tree of a valid capture has at every depth a
\* mapping with the same keys wherever the input has a mapping, and a children
\* list of as many nodes in the same order wherever the input has one: no node
\* is added, dropped, reordered or moved.
C20_TreeShape == ShapesKept({})

\* The same but for the value of a "physid" or "version" key, which is replaced
\* by its string form whatever it holds.
C20_TreeShapeBelowNodes == ShapesKept({"physid", "version"})

\* A valid data sub-tree with nodes two children lists down, and lists in lists,
\* came back changed and in its shape.
C20_Witness ==
  /\ Made("normalize_node")
  /\ ValidData(call.args[1])
  /\ HasKey(call.args[1], "children")
  /\ Len(Item(outcome, "children").l) = 4
  /\ Item(Item(outcome, "children").l[3], "id") = PyStr("b")
  /\ outcome # call.args[1]

\* A capture of the pipeline with children kept its shape while its values changed.
C20_WitnessCapture ==
  \E w \in Typed :
    /\ ValidCapture(doc[w])
    /\ HasKey(DataIn(doc[w]), "children")
    /\ Len(Item(DataIn(doc[w]), "children").l) >= 2
    /\ norm[w] # doc[w]

\* The nodes of a tree that are firmware nodes, in pre-order.
FirmwareNodes(data) ==
  SelectSeq(NodesBelow(data), LAMBDA n : /\ DictGet(n, "id", PyNone) = PyStr("firmware")
                                         /\ DictGet(n, "class", PyNone) = PyStr("memory"))

\* The type the claim gives to a firmware node.
BiosTypeOf(n) ==
  IF \/ Contains(Lower(StrField(n, "description")), "uefi")
     \/ IsDict(DictGet(n, "capabilities", PyNone)) /\ "uefi" \in Keys(Item(n, "capabilities"))
  THEN "UEFI"
  ELSE IF Contains(Lower(StrField(n, "description")), "efi") THEN "EFI"
  ELSE "BIOS"

\* Whether the four bios fields of a mapping are those the claim gives for data.
IsBiosOf(fields, data) ==
  IF FirmwareNodes(data) = <<>>
  THEN \A k \in {"bios_vendor", "bios_version", "bios_date", "bios_type"} : Item(fields, k) = PyNone
  ELSE /\ Item(fields, "bios_vendor") = DictGet(FirmwareNodes(data)[1], "vendor", PyNone)
       /\ Item(fields, "bios_version") = DictGet(FirmwareNodes(data)[1], "version", PyNone)
       /\ Item(fields, "bios_date") = DictGet(FirmwareNodes(data)[1], "date", PyNone)
       /\ Item(fields, "bios_type") = PyStr(BiosTypeOf(FirmwareNodes(data)[1]))

\* C21: the bios fields come from the first node in pre-order, the root included,
\* with id "firmware" and class "memory": vendor, version and date verbatim, and
\* the type "UEFI" if its description contains "UEFI" in any case or its
\* capabilities mapping has the key "uefi", else "EFI" if the description
\* contains "EFI", else "BIOS"; later such nodes are ignored, and without such a
\* node the four fields are None.
C21_Bios ==
  /\ Made("_extract_bios_info")
       => IsDict(outcome) /\ Len(outcome.d) = 4 /\ IsBiosOf(outcome, call.args[1])
  /\ \A w \in Returned : IsBiosOf(profile[w], DataOf(w))

\* Of two firmware nodes the first in pre-order, one level down, gave the fields.
C21_Witness ==
  /\ Made("_extract_bios_info")
  /\ Len(FirmwareNodes(call.args[1])) = 2
  /\ StrField(FirmwareNodes(call.args[1])[1], "description") = "EFI"
  /\ outcome = PyDict(<< <<"bios_vendor", PyNone>>, <<"bios_version", PyNone>>,
                         <<"bios_date", PyStr("2019")>>, <<"bios_type", PyStr("EFI")>> >>)

\* The capabilities alone made a firmware node UEFI.
C21_WitnessCapabilities ==
  /\ Made("_extract_bios_info")
  /\ FirmwareNodes(call.args[1]) # <<>>
  /\ StrField(FirmwareNodes(call.args[1])[1], "description") = "BIOS"
  /\ Item(outcome, "bios_type") = PyStr("UEFI")

\* Whether a node has a size: one that is neither absent, null nor zero.
HasSize(n) == Truthy(DictGet(n, "size", PyNone))

\* The children of a node, when it has a list of them.
ChildrenOf(n) == IF IsList(DictGet(n, "children", PyNone)) THEN Item(n, "children").l ELSE <<>>

RECURSIVE AttachedTo(_)
\* The direct children of class disk or volume of the storage nodes given, node by
\* node, in list order.
AttachedTo(storages) ==
  IF storages = <<>> THEN <<>>
  ELSE SelectSeq(ChildrenOf(Head(storages)),
                 LAMBDA c : IsDict(c) /\ DictGet(c, "class", PyNone) \in {PyStr("disk"), PyStr("volume")})
       \o AttachedTo(Tail(storages))

\* The nodes the claim lists as storage devices, in its order.
StorageListed(data) ==
  SelectSeq(NodesOfClass(data, "disk") \o AttachedTo(NodesOfClass(data, "storage")), HasSize)

\* Whether a storage device entry was made from node n.
IsDeviceOf(entry, n) ==
  /\ IsDict(entry)
  /\ Item(entry, "businfo") = DictGet(n, "businfo", PyStr(""))
  /\ Item(entry, "description") = DictGet(n, "description", PyStr(""))
  /\ Item(entry, "version") = DictGet(n, "version", PyNone)

\* Whether devices holds one entry for each node listed for data, in order.
IsStorageOf(devices, data) ==
  /\ IsList(devices)
  /\ Len(devices.l) = Len(StorageListed(data))
  /\ \A i \in 1..Len(devices.l) : IsDeviceOf(devices.l[i], StorageListed(data)[i])

\* C22: storage_devices holds one entry for every disk node of the tree, in
\* pre-order, then one for every direct child of class disk or volume of every
\* storage node (storage nodes in pre-order, children in list order); a node
\* without a size gives no entry and does not stop the others.
C22_StorageDevices ==
  /\ Made("_extract_storage_devices") => IsStorageOf(outcome, call.args[1])
  /\ \A w \in Returned : IsStorageOf(Item(profile[w], "storage_devices"), DataOf(w))

\* Two disks, one of them below a controller, were listed in pre-order around the
\* controller, and the controller's disk and volume after them.
C22_Witness ==
  /\ Made("_extract_storage_devices")
  /\ IsList(outcome)
  /\ [i \in 1..Len(outcome.l) |-> Item(outcome.l[i], "description")]
       = <<PyStr("ATA Disk"), PyStr(""), PyStr("SCSI Disk"), PyStr(""), PyStr("EXT4 volume")>>

\* Nodes without a size between sized ones were left out, the others listed.
C22_WitnessSizeless ==
  /\ Made("_extract_storage_devices")
  /\ IsList(outcome)
  /\ Len(NodesOfClass(call.args[1], "disk")) = 4
  /\ [i \in 1..Len(outcome.l) |-> Item(outcome.l[i], "description")]
       = <<PyStr("ATA Disk"), PyStr("EXT4 volume")>>

\* The device type the claim gives to a businfo and a description: the first of
\* nvme, scsi, virtio that either of them contains, sata where either contains
\* sata or ata, unknown otherwise.
TypeOverBoth(businfo, description) ==
  IF Contains(Lower(businfo), "nvme") \/ Contains(Lower(description), "nvme") THEN "nvme"
  ELSE IF Contains(Lower(businfo), "scsi") \/ Contains(Lower(description), "scsi") THEN "scsi"
  ELSE IF Contains(Lower(businfo), "virtio") \/ Contains(Lower(description), "virtio") THEN "virtio"
  ELSE IF Contains(Lower(businfo), "ata") \/ Contains(Lower(description), "ata") THEN "sata"
  ELSE "unknown"

\* Whether a storage device entry has the type the claim gives to its businfo and
\* description.
IsTypedOverBoth(entry) ==
  Item(entry, "type") = PyStr(TypeOverBoth(Item(entry, "businfo").s, Item(entry, "description").s))

\* C23: the type of a storage device is nvme if its businfo or its description
\* contains nvme, in any case of letters; else scsi if either contains scsi; else
\* virtio if either contains virtio; else sata if either contains sata or ata; else
\* unknown.
C23_DeviceType ==
  /\ Made("_parse_storage_device") /\ IsDict(outcome) => IsTypedOverBoth(outcome)
  /\ \A w \in Returned :
       \A i \in 1..Len(Item(profile[w], "storage_devices").l) :
         IsTypedOverBoth(Item(profile[w], "storage_devices").l[i])

\* The disk and volume nodes of a tree that carry a size, each node once.
SizedDevices(data) ==
  SelectSeq(NodesOfClass(data, "disk") \o NodesOfClass(data, "volume"), HasSize)

\* Whether a list of storage devices has no more entries than the tree has disk
\* and volume nodes with a size.
IsAtMostOnce(devices, data) == IsList(devices) => Len(devices.l) <= Len(SizedDevices(data))

\* C27: no node gives more than one entry to storage_devices: the list has at most
\* as many entries as the tree has disk and volume nodes with a size, also where a
\* disk is a direct child of a storage node.
C27_AtMostOnce ==
  /\ Made("_extract_storage_devices") => IsAtMostOnce(outcome, call.args[1])
  /\ \A w \in Returned : IsAtMostOnce(Item(profile[w], "storage_devices"), DataOf(w))

\* The value of a key of the configuration of a node: None where the key is absent
\* or the configuration is no mapping.
Configuration(n, key) ==
  IF IsDict(DictGet(n, "configuration", EmptyDict))
  THEN DictGet(DictGet(n, "configuration", EmptyDict), key, PyNone) ELSE PyNone

\* Whether flag is True exactly for the value yes, False exactly for the value no,
\* and None for every other value.
IsFlagOf(flag, value, yes, no) ==
  /\ flag = PyBool(TRUE) <=> value = PyStr(yes)
  /\ flag = PyBool(FALSE) <=> value = PyStr(no)
  /\ flag = PyNone <=> value \notin {PyStr(yes), PyStr(no)}

\* Whether a network interface entry has the link fields the claim gives node n.
IsLinkOf(entry, n) ==
  /\ IsFlagOf(Item(entry, "link_status"), Configuration(n, "link"), "yes", "no")
  /\ IsFlagOf(Item(entry, "autonegotiation"), Configuration(n, "autonegotiation"), "on", "off")
  /\ Item(entry, "duplex") = Configuration(n, "duplex")

\* Whether every entry of a list of network interfaces has the link fields of the
\* network node at its place in the tree.
AreLinksOf(interfaces, data) ==
  /\ IsList(interfaces)
  /\ Len(interfaces.l) = Len(NodesOfClass(data, "network"))
  /\ \A i \in 1..Len(interfaces.l) : IsLinkOf(interfaces.l[i], NodesOfClass(data, "network")[i])

\* C24: for every network node, link_status is True iff configuration.link is "yes",
\* False iff it is "no" and None otherwise; autonegotiation is True iff
\* configuration.autonegotiation is "on", False iff "off" and None otherwise; duplex
\* is configuration.duplex as it stands, None where it is absent or the
\* configuration is no mapping.
C24_LinkFields ==
  /\ Made("_parse_network_interface") /\ IsDict(outcome) => IsLinkOf(outcome, call.args[1])
  /\ \A w \in Returned : AreLinksOf(Item(profile[w], "network_interfaces"), DataOf(w))

\* A node with link "no", autonegotiation "on" and duplex "half" was parsed.
C24_Witness ==
  /\ Made("_parse_network_interface")
  /\ Configuration(call.args[1], "link") = PyStr("no")
  /\ Configuration(call.args[1], "autonegotiation") = PyStr("on")
  /\ Item(outcome, "link_status") = PyBool(FALSE)
  /\ Item(outcome, "autonegotiation") = PyBool(TRUE)
  /\ Item(outcome, "duplex") = PyStr("half")

\* A node whose configuration is a string was parsed: the fields stayed unset.
C24_WitnessUnset ==
  /\ Made("_parse_network_interface")
  /\ IsStr(DictGet(call.args[1], "configuration", PyNone))
  /\ Item(outcome, "link_status") = PyNone
  /\ Item(outcome, "duplex") = PyNone

\* The network nodes of a tree that are on the PCI bus, in pre-order.
PciNetworkNodes(data) == SelectSeq(NodesOfClass(data, "network"), OnPci)

\* Whether a profile has one network interface for every network node of the tree,
\* in pre-order, and beside them one PCI network controller, derived from the node
\* itself, for every network node on the PCI bus.
IsNetworkOf(p, data) ==
  /\ Item(p, "network_interfaces")
       = PyList([i \in DOMAIN NodesOfClass(data, "network") |->
                   _parse_network_interface(NodesOfClass(data, "network")[i])])
  /\ Item(p, "pci_network_controllers")
       = PyList([i \in DOMAIN PciNetworkNodes(data) |-> _parse_pci_device(PciNetworkNodes(data)[i])])

\* C25: network_interfaces has exactly one entry for every network node of the
\* tree, in pre-order, a network child of a network node included; every network
\* node whose businfo begins with "pci@" has one more entry, derived on its own, in
\* pci_network_controllers; neither list is reduced by the other.
C25_NetworkTwice ==
  /\ Made("parse") /\ IsDict(outcome) => IsNetworkOf(outcome, call.args[1])
  /\ \A w \in Returned : IsNetworkOf(profile[w], DataOf(w))

\* A PCI network node with a network child off the bus, and two more network nodes
\* off the bus: four interfaces, one PCI network controller.
C25_Witness ==
  /\ Made("parse")
  /\ IsDict(outcome)
  /\ Len(Item(outcome, "network_interfaces").l) = 4
  /\ Len(Item(outcome, "pci_network_controllers").l) = 1
  /\ Item(Item(outcome, "network_interfaces").l[2], "businfo") = PyStr("virtio@0")

\* The same PCI network node twice in a tree: two interfaces and two controllers.
C25_WitnessSameNode ==
  /\ Made("parse")
  /\ IsDict(outcome)
  /\ Len(Item(outcome, "network_interfaces").l) = 2
  /\ Len(Item(outcome, "pci_network_controllers").l) = 2
  /\ Item(outcome, "network_interfaces").l[1] = Item(outcome, "network_interfaces").l[2]

\* The fields of a parsed firmware string, and those a network interface shows
\* under a key of their own.
DescriptorFields == {"primary", "extended", "bootcode", "nvm", "psid", "ncsi"}

ShownFields == {"bootcode", "nvm", "psid", "ncsi"}

\* Whether parsed is a descriptor the claim allows for the firmware string: every
\* field None or a string that is not empty, all of them None for no string or
\* the empty one, primary set for any other.
IsDescriptorOf(parsed, firmware) ==
  /\ \A f \in DescriptorFields :
       \/ DictGet(parsed, f, PyNone) = PyNone
       \/ IsStr(DictGet(parsed, f, PyNone)) /\ DictGet(parsed, f, PyNone).s # ""
  /\ firmware \in {PyNone, PyStr("")} => \A f \in DescriptorFields : DictGet(parsed, f, PyNone) = PyNone
  /\ firmware \notin {PyNone, PyStr("")} => DictGet(parsed, "primary", PyNone) # PyNone

\* Whether a network interface entry has the key of exactly those fields that the
\* parser set for its firmware and vendor.
ShowsFirmware(entry) ==
  \A f \in ShownFields :
    HasKey(entry, "firmware_" \o f)
      <=> DictGet(_parse_firmware_string(Item(entry, "firmware"), Item(entry, "vendor")), f, PyNone) # PyNone

\* C26: every field of a parsed firmware string is None or a string that is not
\* empty; for no firmware string or the empty one all fields are None; for any
\* other, primary is not None; and a network interface has the key
\* firmware_bootcode, firmware_nvm, firmware_psid, firmware_ncsi exactly when the
\* parser set the field.
C26_FirmwareFields ==
  /\ Made("_parse_firmware_string") /\ IsDict(outcome) => IsDescriptorOf(outcome, call.args[1])
  /\ Made("_parse_network_interface") /\ IsDict(outcome)
       => /\ ShowsFirmware(outcome)
          /\ \A f \in ShownFields :
               HasKey(outcome, "firmware_" \o f)
                 => IsStr(Item(outcome, "firmware_" \o f)) /\ Item(outcome, "firmware_" \o f).s # ""
  /\ \A w \in Returned :
       \A i \in 1..Len(Item(profile[w], "network_interfaces").l) :
         ShowsFirmware(Item(profile[w], "network_interfaces").l[i])

\* A Broadcom interface showed its bootcode and no other field of its own.
C26_Witness ==
  /\ Made("_parse_network_interface")
  /\ IsDict(outcome)
  /\ HasKey(outcome, "firmware_bootcode")
  /\ Item(outcome, "firmware_bootcode") = PyStr("5720-v1.39")
  /\ ~HasKey(outcome, "firmware_nvm") /\ ~HasKey(outcome, "firmware_psid")
  /\ ~HasKey(outcome, "firmware_ncsi")

\* A firmware string of blanks was parsed for a Broadcom device: primary is the
\* string itself, every other field None.
C26_WitnessBlank ==
  /\ Made("_parse_firmware_string")
  /\ call.args[1] = PyStr(" ")
  /\ call.args[2] = PyStr("BROADCOM")
  /\ Item(outcome, "primary") = PyStr(" ")
  /\ Item(outcome, "extended") = PyNone

\* Whether a step leaves what worker w was given as it was: the caller's capture,
\* and the output of the Type Normalizer once it is the input of the extractor.
InputKept(w) ==
  /\ doc'[w] = doc[w]
  /\ norm[w] # Pending => norm'[w] = norm[w]

\* C28: neither stage modifies its input: after normalize(name, c) and after
\* HardwareInfo(name, c).parse() every mapping and list of the capture has the keys,
\* elements and values it had before, whether the call returned a result, the
\* empty mapping or None.
C28_InputKept == [][\A w \in Workers : InputKept(w)]_vars

\* A capture went through both stages: the Type Normalizer returned a tree that
\* differs from it, the extractor a profile.
C28_Witness ==
  \E w \in Returned : /\ src[w] = "normalized"
                       /\ norm[w] # doc[w]
                       /\ doc[w] \in Captures

\* A capture for which the Type Normalizer returned the empty mapping and the
\* extractor None.
C28_WitnessNone ==
  \E w \in Ended : /\ norm[w] = EmptyDict
                    /\ profile[w] = PyNone
                    /\ doc[w] \in Captures

(***************************************************************************)
(* The synchronization tasks of the telco and junit workers: one call of   *)
(* synchronize or full_synchronize, holding the lock it was handed         *)
(***************************************************************************)

\* The remotecis of tasks_telco._sync, in the order of its loop.
remotecis == <<"f5-dallas", "telco-rh-cnf", "rh-dallas">>

\* The page size of _sync.
limit == 100

\* The numbers of jobs a window holds: none, less than a page, a page, more.
JobCounts == {0, 1, limit, limit + 1}

\* What _get_remoteci_id does for a name: it returns the id, it returns None after
\* a status other than 200, or it raises (no connection, or status 200 with an
\* empty list, where [0] is an IndexError).
Lookups == {"found", "none", "raise"}

\* The jobs for which _process raises: none, the first of every page, all.
Raisings == {"none", "first", "all"}

\* The entry points of a worker with the unit and amount they pass to _sync.
Entries(worker) ==
  {[name |-> "synchronize", unit |-> "hours", amount |-> IF worker = "telco" THEN 6 ELSE 2],
   [name |-> "full_synchronize", unit |-> "weeks", amount |-> 24]}

\* The job lists _sync pages through: one per remoteci for telco, one for junit.
Scopes(worker) == IF worker = "telco" THEN DOMAIN remotecis ELSE {1}

\* a_d_l.get_jobs(session_db, offset, limit, ...): the jobs of the window from
\* offset on, limit of them at most; the jobs of a window are numbered from 0.
get_jobs(count, offset) == {j \in 0..(count - 1) : offset <= j /\ j < offset + limit}

\* Whether _process raises for job j.
Raises(j) ==
  \/ task.raising = "all"
  \/ task.raising = "first" /\ j % limit = 0

\* A call of synchronize or full_synchronize of one worker, with the lock held;
\* first holds, for every job list, the offset of its first page once it was asked
\* for.
InitSync ==
  /\ doc = <<>> /\ src = <<>> /\ pc = <<>>
  /\ norm = <<>> /\ inst = <<>> /\ profile = <<>>
  /\ call = NoCall
  /\ outcome = Pending
  /\ \E worker \in {"telco", "junit"} :
       \E entry \in Entries(worker), raising \in Raisings :
         /\ task = [worker |-> worker, entry |-> entry.name, raising |-> raising]
         /\ sync = [pc |-> IF worker = "telco" THEN "lookup" ELSE "fetch",
                    unit |-> entry.unit, amount |-> entry.amount,
                    i |-> 1, offset |-> 0, logged |-> 0,
                    found |-> [i \in Scopes(worker) |-> IF worker = "telco" THEN "" ELSE "found"],
                    first |-> [i \in Scopes(worker) |-> -1]]
         /\ window \in [Scopes(worker) -> JobCounts]
         /\ handed = [i \in Scopes(worker) |-> [j \in 0..(window[i] - 1) |-> 0]]
  /\ lock = [releases |-> 0]

\* The loop of tasks_telco._sync moves on to the next remoteci, or leaves.
next_remoteci(s) ==
  IF s.i < Len(remotecis) THEN [s EXCEPT !.i = s.i + 1, !.pc = "lookup"]
  ELSE [s EXCEPT !.pc = "close"]

\* The first page of a job list was asked for at the offset of s.
asked(s) == IF s.first[s.i] = -1 THEN [s EXCEPT !.first[s.i] = s.offset] ELSE s

\* The jobs handed to _process once more.
processed(jobs) ==
  [handed EXCEPT ![sync.i] = [j \in DOMAIN handed[sync.i] |->
                                IF j \in jobs THEN handed[sync.i][j] + 1 ELSE handed[sync.i][j]]]

\* tasks_telco._sync, one turn of "for remoteci_name in ...": _get_remoteci_id and
\* the test of its value.
telco_get_remoteci_id ==
  /\ task.worker = "telco"
  /\ sync.pc = "lookup"
  /\ \E lookup \in Lookups :
       sync' = IF lookup = "raise" THEN [sync EXCEPT !.found[sync.i] = lookup, !.pc = "raised"]
               ELSE IF lookup = "none" THEN next_remoteci([sync EXCEPT !.found[sync.i] = lookup])
               ELSE [sync EXCEPT !.found[sync.i] = lookup, !.pc = "fetch"]
  /\ UNCHANGED <<task, window, handed, lock>>
  /\ UNCHANGED <<doc, src, pc, norm, inst, profile, call, outcome>>

\* tasks_telco._sync, one turn of "while True": get_jobs, which may raise, the break
\* on an empty page, _process for every job of the page under try/except, and the
\* offset moved on.
telco_jobs ==
  /\ task.worker = "telco"
  /\ sync.pc = "fetch"
  /\ \E fetched \in BOOLEAN :
       IF ~fetched
       THEN sync' = [sync EXCEPT !.pc = "raised"] /\ UNCHANGED handed
       ELSE IF get_jobs(window[sync.i], sync.offset) = {}
       THEN sync' = next_remoteci(asked(sync)) /\ UNCHANGED handed
       ELSE /\ handed' = processed(get_jobs(window[sync.i], sync.offset))
            /\ sync' = [asked(sync) EXCEPT
                          !.offset = sync.offset + limit,
                          !.logged = sync.logged
                                     + Cardinality({j \in get_jobs(window[sync.i], sync.offset) : Raises(j)})]
  /\ UNCHANGED <<task, window, lock>>
  /\ UNCHANGED <<doc, src, pc, norm, inst, profile, call, outcome>>

\* The jobs of a page up to the first for which _process raises, that one included.
until_raise(jobs) == {j \in jobs : \A k \in jobs : Raises(k) => j <= k}

\* tasks_junit._sync, one turn of "while True": get_jobs, which may raise, the break
\* on an empty page, _process for every job of the page with nothing caught, and
\* the offset moved on.
junit_jobs ==
  /\ task.worker = "junit"
  /\ sync.pc = "fetch"
  /\ \E fetched \in BOOLEAN :
       IF ~fetched
       THEN sync' = [sync EXCEPT !.pc = "raised"] /\ UNCHANGED handed
       ELSE IF get_jobs(window[sync.i], sync.offset) = {}
       THEN sync' = [asked(sync) EXCEPT !.pc = "close"] /\ UNCHANGED handed
       ELSE /\ handed' = processed(until_raise(get_jobs(window[sync.i], sync.offset)))
            /\ sync' = IF \E j \in get_jobs(window[sync.i], sync.offset) : Raises(j)
                       THEN [asked(sync) EXCEPT !.pc = "raised"]
                       ELSE [asked(sync) EXCEPT !.offset = sync.offset + limit]
  /\ UNCHANGED <<task, window, lock>>
  /\ UNCHANGED <<doc, src, pc, norm, inst, profile, call, outcome>>

\* session_db.close(), the last statement of _sync.
close ==
  /\ sync.pc = "close"
  /\ sync' = [sync EXCEPT !.pc = "release"]
  /\ UNCHANGED <<task, window, handed, lock>>
  /\ UNCHANGED <<doc, src, pc, norm, inst, profile, call, outcome>>

\* _lock_synchronization.release(), the statement after _sync in synchronize and
\* full_synchronize.
release ==
  /\ sync.pc = "release"
  /\ lock' = [lock EXCEPT !.releases = lock.releases + 1]
  /\ sync' = [sync EXCEPT !.pc = "returned"]
  /\ UNCHANGED <<task, window, handed>>
  /\ UNCHANGED <<doc, src, pc, norm, inst, profile, call, outcome>>

NextSync ==
  \/ telco_get_remoteci_id
  \/ telco_jobs
  \/ junit_jobs
  \/ close
  \/ release

SpecSync == InitSync /\ [][NextSync]_vars

\* The worker runs the function it has entered until the function is left.
SpecSyncFair == SpecSync /\ WF_vars(NextSync)

\* _sync of the telco worker has ended without an exception.
Synced == task.worker = "telco" /\ sync.pc \in {"release", "returned"}

\* C29: in tasks_telco._sync, for each of the three remotecis whose id is found,
\* the pages start at offset 0 and go on by the page size until an empty page, so
\* that every job of the remoteci in the window is handed to _process exactly
\* once; an exception of _process for one job is logged and keeps no other job
\* and no other remoteci from being processed.
C29_EveryJobOnce ==
  Synced =>
    \A i \in DOMAIN remotecis :
      sync.found[i] = "found"
        => /\ sync.first[i] = 0
           /\ \A j \in DOMAIN handed[i] : handed[i][j] = 1

\* The function entered has been left, by its return or by an exception.
Left == sync.pc \in {"returned", "raised"}

\* C30: synchronize and full_synchronize of the telco and junit workers release the
\* lock on every path: once the function is left, release() has been called
\* exactly once, also where _sync failed part-way.
C30_ReleasedOnLeaving == Left => lock.releases = 1

====
